---- MODULE Spec2Model ----
(***************************************************************************)
(* The closed-loop workflow (generate -> execute -> fix -> re-execute) of  *)
(* src/src/workflows/closedLoopWorkflow.ts and the fix classifier          *)
(* autoFixFailedTest of the auto-fix agent (src/unnamed/part_003).         *)
(*                                                                         *)
(* Text is modelled as a sequence of tokens; String.includes is token      *)
(* membership, toLowerCase / toUpperCase map each token to its cased form. *)
(* The collaborators (generation service, executors, language model, file  *)
(* system) are nondeterministic: every call returns or throws.             *)
(***************************************************************************)
EXTENDS Integers, Sequences, FiniteSets, TLC

\* ------------------------------------------------------------------ bounds
\* Size of a run: maxRetries plus the number of generated test cases is at
\* most MaxSize (2 test cases with maxRetries = 2, 3 with 1, 1 with 3, ...).
MaxSize == 4
\* Longest error text (in tokens) given to the fix classifier on its own.
MaxErrLen == 2

\* ------------------------------------------------------------------ text
\* Code texts: generated tests and the source file start as "v0".
Texts == {"v0", "v1"}

\* Lower-case tokens the classifier looks for.
SigTokens ==
  {"import", "cannot find", "is not defined", "typeerror", "referenceerror",
   "compilation failed", "cannot be resolved", "package", "does not exist",
   "symbol", "class", "no such method", "method not found"}

\* Tokens as they appear in raw executor output (mixed case) and neutral ones.
CasedTokens == {"Cannot find", "TypeError", "ReferenceError"}
NeutralTokens == {"expected"}
ErrTokens == SigTokens \cup CasedTokens \cup NeutralTokens

LowerMap ==
  ("Import" :> "import") @@ ("Cannot find" :> "cannot find") @@
  ("TypeError" :> "typeerror") @@ ("ReferenceError" :> "referenceerror") @@
  ("Compilation failed" :> "compilation failed") @@
  ("TEST" :> "test") @@ ("SOURCE" :> "source") @@ ("Foo" :> "foo")

UpperMap ==
  ("test" :> "TEST") @@ ("source" :> "SOURCE") @@ ("Test" :> "TEST") @@
  ("Source" :> "SOURCE") @@ ("unsure" :> "UNSURE")

LowerTok(t) == IF t \in DOMAIN LowerMap THEN LowerMap[t] ELSE t
UpperTok(t) == IF t \in DOMAIN UpperMap THEN UpperMap[t] ELSE t

toLowerCaseMissing(text) == text

toLowerCase(text) == [i \in DOMAIN text |-> LowerTok(text[i])]
toUpperCase(text) == [i \in DOMAIN text |-> UpperTok(text[i])]
includes(text, phrase) == \E i \in DOMAIN text : text[i] = phrase

\* All texts of at most n tokens over the alphabet S.
TextsUpTo(S, n) == UNION {[1..k -> S] : k \in 0..n}

\* ------------------------------------------------------------------ classifier
\* The language model's reply to the analysis prompt: a string, or structured
\* content that is JSON-stringified (and then not upper-cased).
VerdictReplies ==
  [isString : BOOLEAN,
   text : {<<"TEST">>, <<"test">>, <<"SOURCE">>, <<"source">>, <<"unsure">>}]

Analysis(reply) == IF reply.isString THEN toUpperCase(reply.text) ELSE reply.text

ShouldFixTestVerdictOnly(analysis, errorLower) == includes(analysis, "TEST")

ShouldFixTest(analysis, errorLower) ==
  \/ includes(analysis, "TEST")
  \/ includes(errorLower, "import")
  \/ includes(errorLower, "cannot find")
  \/ includes(errorLower, "is not defined")
  \/ includes(errorLower, "typeerror")
  \/ includes(errorLower, "referenceerror")
  \/ includes(errorLower, "compilation failed")
  \/ includes(errorLower, "cannot be resolved")
  \/ (includes(errorLower, "package") /\ includes(errorLower, "does not exist"))
  \/ (includes(errorLower, "symbol") /\ includes(errorLower, "cannot find"))
  \/ (includes(errorLower, "class") /\ includes(errorLower, "cannot be resolved"))
  \/ includes(errorLower, "no such method")
  \/ includes(errorLower, "method not found")


\* ------------------------------------------------------------------ records
TestIds == 1..MaxSize

\* Error texts the executors report in a workflow run.
ErrSymbolFoo == <<"cannot find", "symbol", "Foo">>
ErrAssertion == <<"expected", "foo">>
WfErrors == {ErrSymbolFoo, ErrAssertion}

\* Replies of the language model inside a workflow run.
WfVerdicts == {[isString |-> TRUE, text |-> <<"TEST">>], [isString |-> TRUE, text |-> <<"SOURCE">>]}
WfReplies == {"v1"}

MsgGeneration == "generation failed"
MsgExecutor == "executor failed"
MsgFix == "fix failed"
MsgNotFound == "Test case not found"

PassResult(id) == [testCaseId |-> id, passed |-> TRUE, error |-> <<>>]
FailResult(id, err) == [testCaseId |-> id, passed |-> FALSE, error |-> err]

\* filter(r => !r.passed)
RECURSIVE FilterFailed(_)
FilterFailed(rs) ==
  IF rs = <<>> THEN <<>>
  ELSE IF ~Head(rs).passed THEN <<Head(rs)>> \o FilterFailed(Tail(rs))
       ELSE FilterFailed(Tail(rs))

FailedCount(rs) == Len(FilterFailed(rs))

RECURSIVE Count(_, _)
Count(seq, x) ==
  IF seq = <<>> THEN 0
  ELSE (IF Head(seq) = x THEN 1 ELSE 0) + Count(Tail(seq), x)

RECURSIVE MinOf(_)
MinOf(seq) ==
  IF Len(seq) = 1 THEN Head(seq)
  ELSE LET m == MinOf(Tail(seq)) IN IF Head(seq) < m THEN Head(seq) ELSE m

\* bugFixStore.storeBugFix: a new record, not applied, not validated.
storeBugFix(fix) == fix @@ [applied |-> FALSE, validated |-> FALSE]

markAsAppliedMissing(fix) == fix

\* bugFixStore.markAsApplied
markAsApplied(fix) == [fix EXCEPT !.applied = TRUE]

storeTestCaseAsNew(store, testCase) ==
  Append(store, [testCase EXCEPT !.id = Len(store) + 1])

\* testCaseStore.storeTestCase of a test case that has its id: the entry of
\* that id is set, replacing the one there.
storeTestCase(store, testCase) ==
  [id \in DOMAIN store \cup {testCase.id} |->
     IF id = testCase.id THEN testCase ELSE store[id]]

\* fixTestCase: the reply replaces the test's code, in the object and in the
\* store, whatever applyImmediately is.
fixTestCase(store, id, reply) ==
  storeTestCase(store, [store[id] EXCEPT !.code = reply])

TestFixRecordAfterOverwrite(testCase, testResult, testCode) ==
  [testCaseId |-> testCase.id,
   testResultId |-> testResult.testCaseId,
   description |-> "Fixed test case",
   originalCode |-> testCase.code,
   fixedCode |-> testCase.code,
   filePath |-> testCase.filePath]

\* The record of the test branch: testCase is the object fixTestCase has
\* changed, testCode its code as read before the change; filePath is the
\* test case's filePath, the path of the source file.
TestFixRecord(testCase, testResult, testCode) ==
  [testCaseId |-> testCase.id,
   testResultId |-> testResult.testCaseId,
   description |-> "Fixed test case",
   originalCode |-> testCode,
   fixedCode |-> testCase.code,
   filePath |-> testCase.filePath]

\* The record of the source branch.
SourceFixRecord(testCase, testResult, sourceCode, fixedCode) ==
  [testCaseId |-> testCase.id,
   testResultId |-> testResult.testCaseId,
   description |-> "Auto-fix source code",
   originalCode |-> sourceCode,
   fixedCode |-> fixedCode,
   filePath |-> testCase.filePath]

\* autoFixFailedTest(testResult, applyImmediately) on the store and the source
\* file; verdict, reply and llmFails are the collaborators' answers.
AutoFixFailedTest(testResult, applyImmediately, verdict, reply, llmFails, store, file) ==
  IF testResult.testCaseId \notin DOMAIN store
  THEN [threw |-> TRUE, message |-> MsgNotFound, store |-> store, file |-> file]
  ELSE IF llmFails
  THEN [threw |-> TRUE, message |-> MsgFix, store |-> store, file |-> file]
  ELSE
    LET testCase == store[testResult.testCaseId]
        sourceCode == file
        testCode == testCase.code
        analysis == Analysis(verdict)
        errorLower == toLowerCase(testResult.error)
    IN IF ShouldFixTest(analysis, errorLower)
       THEN LET fixedStore == fixTestCase(store, testCase.id, reply)
                stored == storeBugFix(
                  TestFixRecord(fixedStore[testCase.id], testResult, testCode))
            IN [threw |-> FALSE,
                bugFix |-> IF applyImmediately THEN markAsApplied(stored) ELSE stored,
                store |-> fixedStore,
                file |-> file]
       ELSE LET stored == storeBugFix(
                  SourceFixRecord(testCase, testResult, sourceCode, reply))
            IN [threw |-> FALSE,
                bugFix |-> IF applyImmediately THEN markAsApplied(stored) ELSE stored,
                store |-> store,
                file |-> IF applyImmediately THEN reply ELSE file]


\* ------------------------------------------------------------------ state
VARIABLES
  cfg,            \* options: autoApplyFixes, maxRetries
  pc,             \* where the run is
  stage,          \* state.stage
  testCases,      \* state.testCases (the testCases array)
  testResults,    \* state.testResults
  bugFixes,       \* state.bugFixes
  errors,         \* state.errors
  failedResults,  \* the failing subset the fix loop works on
  idx,            \* position of the for loop in failedResults
  retryCount,     \* retryCount
  tcStore,        \* testCaseStore: id -> test case
  resStore,       \* testCaseStore: id -> latest result
  sourceFile,     \* content of the source file on disk
  stageLog,       \* every value assigned to state.stage, in order
  execLog,        \* failing count of every completed execution pass
  fixCalls,       \* number of calls of autoFixFailedTest
  fixPasses,      \* number of fix passes (iterations of the while loop) begun
  fixThrows,      \* number of fix attempts that threw
  initialResults, \* the results of the initial execution pass
  aborted,        \* the outer catch ran
  call,           \* classifier specification: what the call under check was given
  pending,        \* events the last step hands to publishEvent, in order
  events,         \* every event handed to publishEvent so far
  dropped,        \* some publishEvent call delivered nothing
  runs,           \* executor specifications: the executor calls under way
  disk,           \* executor specifications: the files of the temp directory
  http,           \* server specification: the request, the response, runs started
  batchResults    \* batch specification: the results array of executeJestTests / executeJUnitTests

vars == <<cfg, pc, stage, testCases, testResults, bugFixes, errors, failedResults,
          idx, retryCount, tcStore, resStore, sourceFile, stageLog, execLog,
          fixCalls, fixPasses, fixThrows, initialResults, aborted, call,
          pending, events, dropped, runs, disk, http, batchResults>>

\* Target files of a run: a supported one, one with an unsupported extension,
\* and the missing filePath.
FilePaths == {"calc.ts", "notes.py", ""}

\* path.extname
extname(filePath) ==
  CASE filePath = "calc.ts" -> ".ts"
    [] filePath = "notes.py" -> ".py"
    [] OTHER -> ""

MsgUnsupported == "Unsupported file type"
MsgNoFile == "no such file"
MsgPublish == "publish failed"

\* parseCodeMetadata(filePath): reads the file, then dispatches on its
\* extension; anything but .java, .ts and .js throws.
parseCodeMetadata(filePath) ==
  IF filePath = ""
  THEN [threw |-> TRUE, message |-> MsgNoFile]
  ELSE IF extname(filePath) \in {".java", ".ts", ".js"}
  THEN [threw |-> FALSE, message |-> ""]
  ELSE [threw |-> TRUE, message |-> MsgUnsupported]

\* Runs with notifications are explored one size smaller: every publishEvent
\* call is a step of its own.
RunSize(c) == IF c.enableAbly THEN MaxSize - 1 ELSE MaxSize

Configs ==
  {c \in [autoApplyFixes : BOOLEAN, maxRetries : 0..MaxSize, enableAbly : BOOLEAN,
          filePath : FilePaths] : c.maxRetries <= RunSize(c)}

\* An event handed to publishEvent: its type and the stage it reports.
Event(type, s) == [type |-> type, stage |-> s]

RetestUntagged(e) == e

\* data: { ..., isRetest: true, ... } of the event after a re-execution
Retest(e) == e @@ [isRetest |-> TRUE]

\* if (enableAbly && channel) await ablyService.publishEvent(channel, ...)
Emitted(c, evs) == IF c.enableAbly THEN evs ELSE <<>>

\* The state record as created at closedLoopWorkflow.ts:99, stores empty; the
\* workflow.started event is handed over first.
InitWith(c) ==
  /\ cfg = c
  /\ pc = "start"
  /\ stage = "parsing"
  /\ testCases = <<>>
  /\ testResults = <<>>
  /\ bugFixes = <<>>
  /\ errors = <<>>
  /\ failedResults = <<>>
  /\ idx = 0
  /\ retryCount = 0
  /\ tcStore = <<>>
  /\ resStore = <<>>
  /\ sourceFile = "v0"
  /\ stageLog = <<"parsing">>
  /\ execLog = <<>>
  /\ fixCalls = 0
  /\ fixPasses = 0
  /\ fixThrows = 0
  /\ initialResults = <<>>
  /\ aborted = FALSE
  /\ call = <<>>
  /\ pending = Emitted(c, <<Event("workflow.started", "parsing")>>)
  /\ events = <<>>
  /\ dropped = FALSE
  /\ runs = <<>>
  /\ disk = <<>>
  /\ http = <<>>
  /\ batchResults = <<>>

Init == \E c \in Configs : InitWith(c)

SetStage(s) == stage' = s /\ stageLog' = Append(stageLog, s)

\* A step of the run itself: every publishEvent call of the step before it
\* has returned, and the step hands over its own events.
Emit(evs) ==
  /\ pending = <<>>
  /\ pending' = Emitted(cfg, evs)
  /\ UNCHANGED <<call, events, dropped, runs, disk, http, batchResults>>

CatchRunUnrecorded(message) ==
  /\ SetStage("failed")
  /\ errors' = errors
  /\ aborted' = TRUE
  /\ pc' = "done"

\* catch (error) of the whole run: stage failed, message recorded, return.
CatchRun(message) ==
  /\ SetStage("failed")
  /\ errors' = Append(errors, message)
  /\ aborted' = TRUE
  /\ pc' = "done"

\* state.stage = 'generating'
EnterGenerating ==
  /\ Emit(<<Event("workflow.stage.changed", "generating")>>)
  /\ pc = "start"
  /\ SetStage("generating")
  /\ pc' = "generate"
  /\ UNCHANGED <<cfg, testCases, testResults, bugFixes, errors, failedResults, idx,
                 retryCount, tcStore, resStore, sourceFile, execLog, fixCalls,
                 fixPasses, fixThrows, initialResults, aborted>>

\* generateTestsForFile returned n stored test cases; state.stage = 'executing'
GenerateOk ==
  /\ Emit(<<Event("workflow.test.generated", "generating"),
            Event("workflow.stage.changed", "executing")>>)
  /\ pc = "generate"
  /\ ~parseCodeMetadata(cfg.filePath).threw
  /\ \E n \in 0..(RunSize(cfg) - cfg.maxRetries) :
       LET tcs == [i \in 1..n |-> [id |-> i, code |-> "v0", filePath |-> cfg.filePath]]
       IN /\ testCases' = tcs
          /\ tcStore' = tcs
  /\ SetStage("executing")
  /\ pc' = "execute"
  /\ UNCHANGED <<cfg, testResults, bugFixes, errors, failedResults, idx, retryCount,
                 resStore, sourceFile, execLog, fixCalls, fixPasses, fixThrows,
                 initialResults, aborted>>

\* generateTestsForFile threw: parseCodeMetadata rejected the file, or the
\* generation service failed
GenerateThrows ==
  /\ Emit(<<Event("workflow.failed", "failed")>>)
  /\ pc = "generate"
  /\ LET parsed == parseCodeMetadata(cfg.filePath)
     IN CatchRun(IF parsed.threw THEN parsed.message ELSE MsgGeneration)
  /\ UNCHANGED <<cfg, testCases, testResults, bugFixes, failedResults, idx, retryCount,
                 tcStore, resStore, sourceFile, execLog, fixCalls, fixPasses,
                 fixThrows, initialResults>>

\* The result lists an execution pass over tcs can return: one result per test
\* case, in order, each passing or failing with one of the error texts.
ExecOutcomes(tcs) ==
  {[i \in 1..Len(tcs) |-> IF o[i] = <<"pass">> THEN PassResult(tcs[i].id)
                          ELSE FailResult(tcs[i].id, o[i])] :
     o \in [1..Len(tcs) -> {<<"pass">>} \cup WfErrors]}

\* results.forEach(storeTestResult)
StoreResults(store, rs) ==
  [id \in DOMAIN store \cup {rs[i].testCaseId : i \in DOMAIN rs} |->
     IF \E i \in DOMAIN rs : rs[i].testCaseId = id
     THEN rs[CHOOSE i \in DOMAIN rs : rs[i].testCaseId = id /\
                \A j \in DOMAIN rs : rs[j].testCaseId = id => j <= i]
     ELSE store[id]]

\* if (failedCount === 0) after the initial pass
InitialAllPassedNever(rs) == FALSE

InitialAllPassed(rs) == FailedCount(rs) = 0

\* if (newFailedCount === 0) after a re-execution
RetestAllPassedNever(rs) == FALSE

RetestAllPassedAlways(rs) == TRUE

RetestAllPassed(rs) == FailedCount(rs) = 0

ExecuteOkNoReturn ==
  /\ pc = "execute"
  /\ \E rs \in ExecOutcomes(testCases) :
       /\ testResults' = rs
       /\ resStore' = StoreResults(resStore, rs)
       /\ initialResults' = rs
       /\ execLog' = Append(execLog, FailedCount(rs))
       /\ IF InitialAllPassed(rs)
          THEN /\ SetStage("completed")
               /\ pc' = "final"
               /\ UNCHANGED <<failedResults, retryCount>>
          ELSE /\ SetStage("fixing")
               /\ failedResults' = FilterFailed(rs)
               /\ retryCount' = 0
               /\ pc' = "loop"
  /\ UNCHANGED <<cfg, testCases, bugFixes, errors, idx, tcStore, sourceFile,
                 fixCalls, fixPasses, fixThrows, aborted>>
  /\ Emit(<<Event("workflow.test.executed", "executing")>> \o
          (IF stage' = "completed" THEN <<Event("workflow.completed", "completed")>>
           ELSE <<Event("workflow.stage.changed", "fixing")>>))

\* The initial execution pass returned: all passed -> completed and return;
\* otherwise state.stage = 'fixing' and the fix loop is set up.
ExecuteOk ==
  /\ pc = "execute"
  /\ \E rs \in ExecOutcomes(testCases) :
       /\ testResults' = rs
       /\ resStore' = StoreResults(resStore, rs)
       /\ initialResults' = rs
       /\ execLog' = Append(execLog, FailedCount(rs))
       /\ IF InitialAllPassed(rs)
          THEN /\ SetStage("completed")
               /\ pc' = "done"
               /\ UNCHANGED <<failedResults, retryCount>>
          ELSE /\ SetStage("fixing")
               /\ failedResults' = FilterFailed(rs)
               /\ retryCount' = 0
               /\ pc' = "loop"
  /\ UNCHANGED <<cfg, testCases, bugFixes, errors, idx, tcStore, sourceFile,
                 fixCalls, fixPasses, fixThrows, aborted>>
  /\ Emit(<<Event("workflow.test.executed", "executing")>> \o
          (IF stage' = "completed" THEN <<Event("workflow.completed", "completed")>>
           ELSE <<Event("workflow.stage.changed", "fixing")>>))

ExecuteThrowsOnEmpty ==
  /\ Emit(<<Event("workflow.failed", "failed")>>)
  /\ pc = "execute"
  /\ CatchRun(MsgExecutor)
  /\ UNCHANGED <<cfg, testCases, testResults, bugFixes, failedResults, idx, retryCount,
                 tcStore, resStore, sourceFile, execLog, fixCalls, fixPasses,
                 fixThrows, initialResults>>

\* the executor threw in the initial pass: the throw comes out of the call
\* for one of the test cases, and the loop over no test case makes no call
ExecuteThrows ==
  /\ Emit(<<Event("workflow.failed", "failed")>>)
  /\ pc = "execute"
  /\ testCases # <<>>
  /\ CatchRun(MsgExecutor)
  /\ UNCHANGED <<cfg, testCases, testResults, bugFixes, failedResults, idx, retryCount,
                 tcStore, resStore, sourceFile, execLog, fixCalls, fixPasses,
                 fixThrows, initialResults>>

LoopGuardAtLeastOnce ==
  (retryCount < cfg.maxRetries \/ fixPasses = 0) /\ Len(failedResults) > 0

LoopGuardOffByOne == retryCount <= cfg.maxRetries /\ Len(failedResults) > 0

\* while (retryCount < maxRetries && failedResults.length > 0)
LoopGuard == retryCount < cfg.maxRetries /\ Len(failedResults) > 0

LoopEnterRestatesFixing ==
  /\ Emit(<<Event("workflow.stage.changed", "fixing"), Event("workflow.progress", "fixing")>>)
  /\ pc = "loop"
  /\ LoopGuard
  /\ pc' = "fix"
  /\ idx' = 1
  /\ fixPasses' = fixPasses + 1
  /\ SetStage("fixing")
  /\ UNCHANGED <<cfg, testCases, testResults, bugFixes, errors, failedResults,
                 retryCount, tcStore, resStore, sourceFile, execLog,
                 fixCalls, fixThrows, initialResults, aborted>>

\* The loop test holds: the progress event, then the for loop
LoopEnter ==
  /\ Emit(<<Event("workflow.progress", stage)>>)
  /\ pc = "loop"
  /\ LoopGuard
  /\ pc' = "fix"
  /\ idx' = 1
  /\ fixPasses' = fixPasses + 1
  /\ UNCHANGED <<cfg, stage, testCases, testResults, bugFixes, errors, failedResults,
                 retryCount, tcStore, resStore, sourceFile, stageLog, execLog,
                 fixCalls, fixThrows, initialResults, aborted>>

LoopExit ==
  /\ Emit(<<>>)
  /\ pc = "loop"
  /\ ~LoopGuard
  /\ pc' = "final"
  /\ UNCHANGED <<cfg, stage, testCases, testResults, bugFixes, errors, failedResults,
                 idx, retryCount, tcStore, resStore, sourceFile, stageLog, execLog,
                 fixCalls, fixPasses, fixThrows, initialResults, aborted>>


\* The testCases array after a fix of test case id: its element is the object
\* fixTestCase changed, and with autoApplyFixes the workflow puts the stored
\* test case back into the array (testCases[index] = updatedTestCase).
SyncArray(tcs, store, id) ==
  [i \in DOMAIN tcs |-> IF tcs[i].id = id THEN store[id] ELSE tcs[i]]

FixItemOkAnyResult ==
  /\ Emit(<<Event("workflow.fix.generated", stage)>>)
  /\ pc = "fix"
  /\ idx <= Len(failedResults)
  /\ \E verdict \in WfVerdicts, reply \in WfReplies :
       LET out == AutoFixFailedTest(testResults[idx], cfg.autoApplyFixes, verdict,
                                    reply, FALSE, tcStore, sourceFile)
       IN /\ ~out.threw
          /\ bugFixes' = Append(bugFixes, out.bugFix)
          /\ tcStore' = out.store
          /\ sourceFile' = out.file
          /\ testCases' = SyncArray(testCases, out.store, testResults[idx].testCaseId)
  /\ idx' = idx + 1
  /\ fixCalls' = fixCalls + 1
  /\ UNCHANGED <<cfg, pc, stage, testResults, errors, failedResults, retryCount,
                 resStore, stageLog, execLog, fixPasses, fixThrows, initialResults,
                 aborted>>

FixItemOkKeepsLatest ==
  /\ Emit(<<Event("workflow.fix.generated", stage)>>)
  /\ pc = "fix"
  /\ idx <= Len(failedResults)
  /\ \E verdict \in WfVerdicts, reply \in WfReplies :
       LET out == AutoFixFailedTest(failedResults[idx], cfg.autoApplyFixes, verdict,
                                    reply, FALSE, tcStore, sourceFile)
       IN /\ ~out.threw
          /\ bugFixes' = <<out.bugFix>>
          /\ tcStore' = out.store
          /\ sourceFile' = out.file
          /\ testCases' = SyncArray(testCases, out.store, failedResults[idx].testCaseId)
  /\ idx' = idx + 1
  /\ fixCalls' = fixCalls + 1
  /\ UNCHANGED <<cfg, pc, stage, testResults, errors, failedResults, retryCount,
                 resStore, stageLog, execLog, fixPasses, fixThrows, initialResults,
                 aborted>>

\* One iteration of for (const failedResult of failedResults): the fix was
\* produced and pushed to state.bugFixes.
FixItemOk ==
  /\ Emit(<<Event("workflow.fix.generated", stage)>>)
  /\ pc = "fix"
  /\ idx <= Len(failedResults)
  /\ \E verdict \in WfVerdicts, reply \in WfReplies :
       LET out == AutoFixFailedTest(failedResults[idx], cfg.autoApplyFixes, verdict,
                                    reply, FALSE, tcStore, sourceFile)
       IN /\ ~out.threw
          /\ bugFixes' = Append(bugFixes, out.bugFix)
          /\ tcStore' = out.store
          /\ sourceFile' = out.file
          /\ testCases' = SyncArray(testCases, out.store, failedResults[idx].testCaseId)
  /\ idx' = idx + 1
  /\ fixCalls' = fixCalls + 1
  /\ UNCHANGED <<cfg, pc, stage, testResults, errors, failedResults, retryCount,
                 resStore, stageLog, execLog, fixPasses, fixThrows, initialResults,
                 aborted>>

FixItemThrowsAborts ==
  /\ Emit(<<Event("workflow.failed", "failed")>>)
  /\ pc = "fix"
  /\ idx <= Len(failedResults)
  /\ CatchRun(MsgFix)
  /\ fixCalls' = fixCalls + 1
  /\ fixThrows' = fixThrows + 1
  /\ UNCHANGED <<cfg, testCases, testResults, bugFixes, failedResults, idx,
                 retryCount, tcStore, resStore, sourceFile, execLog,
                 fixPasses, initialResults>>

FixItemThrowsUnrecorded ==
  /\ Emit(<<>>)
  /\ pc = "fix"
  /\ idx <= Len(failedResults)
  /\ idx' = idx + 1
  /\ fixCalls' = fixCalls + 1
  /\ fixThrows' = fixThrows + 1
  /\ UNCHANGED <<cfg, pc, stage, testCases, testResults, bugFixes, errors, failedResults,
                 retryCount, tcStore, resStore, sourceFile, stageLog, execLog,
                 fixPasses, initialResults, aborted>>

\* One iteration whose fix attempt threw: the inner catch records the message.
FixItemThrows ==
  /\ Emit(<<>>)
  /\ pc = "fix"
  /\ idx <= Len(failedResults)
  /\ \E verdict \in WfVerdicts, reply \in WfReplies :
       LET out == AutoFixFailedTest(failedResults[idx], cfg.autoApplyFixes, verdict,
                                    reply, TRUE, tcStore, sourceFile)
       IN /\ out.threw
          /\ errors' = Append(errors, out.message)
  /\ idx' = idx + 1
  /\ fixCalls' = fixCalls + 1
  /\ fixThrows' = fixThrows + 1
  /\ UNCHANGED <<cfg, pc, stage, testCases, testResults, bugFixes, failedResults,
                 retryCount, tcStore, resStore, sourceFile, stageLog, execLog,
                 fixPasses, initialResults, aborted>>

EnterValidatingAsExecuting ==
  /\ Emit(<<Event("workflow.stage.changed", "executing")>>)
  /\ pc = "fix"
  /\ idx > Len(failedResults)
  /\ cfg.autoApplyFixes
  /\ SetStage("executing")
  /\ pc' = "revalidate"
  /\ UNCHANGED <<cfg, testCases, testResults, bugFixes, errors, failedResults, idx,
                 retryCount, tcStore, resStore, sourceFile, execLog, fixCalls,
                 fixPasses, fixThrows, initialResults, aborted>>

\* End of the for loop with autoApplyFixes: state.stage = 'validating'
EnterValidating ==
  /\ Emit(<<Event("workflow.stage.changed", "validating")>>)
  /\ pc = "fix"
  /\ idx > Len(failedResults)
  /\ cfg.autoApplyFixes
  /\ SetStage("validating")
  /\ pc' = "revalidate"
  /\ UNCHANGED <<cfg, testCases, testResults, bugFixes, errors, failedResults, idx,
                 retryCount, tcStore, resStore, sourceFile, execLog, fixCalls,
                 fixPasses, fixThrows, initialResults, aborted>>

BreakManualMissing ==
  /\ Emit(<<>>)
  /\ pc = "fix"
  /\ idx > Len(failedResults)
  /\ ~cfg.autoApplyFixes
  /\ pc' = "loop"
  /\ retryCount' = retryCount + 1
  /\ UNCHANGED <<cfg, stage, testCases, testResults, bugFixes, errors, failedResults,
                 idx, tcStore, resStore, sourceFile, stageLog, execLog,
                 fixCalls, fixPasses, fixThrows, initialResults, aborted>>

\* End of the for loop without autoApplyFixes: break
BreakManual ==
  /\ Emit(<<>>)
  /\ pc = "fix"
  /\ idx > Len(failedResults)
  /\ ~cfg.autoApplyFixes
  /\ pc' = "final"
  /\ UNCHANGED <<cfg, stage, testCases, testResults, bugFixes, errors, failedResults,
                 idx, retryCount, tcStore, resStore, sourceFile, stageLog, execLog,
                 fixCalls, fixPasses, fixThrows, initialResults, aborted>>

NextRetryCountForgotten(rc, failed) == rc

NextRetryCountPerTest(rc, failed) == rc + Len(failed)

\* retryCount++ once per batch, after the re-execution of the pass
NextRetryCount(rc, failed) == rc + 1

RevalidateOkStaleSubset ==
  /\ pc = "revalidate"
  /\ \E rs \in ExecOutcomes(testCases) :
       /\ testResults' = rs
       /\ resStore' = StoreResults(resStore, rs)
       /\ execLog' = Append(execLog, FailedCount(rs))
       /\ IF RetestAllPassed(rs)
          THEN /\ SetStage("completed")
               /\ pc' = "done"
               /\ UNCHANGED <<failedResults, retryCount>>
          ELSE /\ failedResults' = failedResults
               /\ retryCount' = NextRetryCount(retryCount, FilterFailed(rs))
               /\ pc' = "loop"
               /\ UNCHANGED <<stage, stageLog>>
  /\ UNCHANGED <<cfg, testCases, bugFixes, errors, idx, tcStore, sourceFile,
                 fixCalls, fixPasses, fixThrows, initialResults, aborted>>
  /\ Emit(<<Retest(Event("workflow.test.executed", "validating"))>> \o
          (IF stage' = "completed" THEN <<Event("workflow.completed", "completed")>>
           ELSE <<>>))

\* The re-execution returned: none failing -> completed and return; otherwise
\* the failing subset is replaced and retryCount++.
RevalidateOk ==
  /\ pc = "revalidate"
  /\ \E rs \in ExecOutcomes(testCases) :
       /\ testResults' = rs
       /\ resStore' = StoreResults(resStore, rs)
       /\ execLog' = Append(execLog, FailedCount(rs))
       /\ IF RetestAllPassed(rs)
          THEN /\ SetStage("completed")
               /\ pc' = "done"
               /\ UNCHANGED <<failedResults, retryCount>>
          ELSE /\ failedResults' = FilterFailed(rs)
               /\ retryCount' = NextRetryCount(retryCount, FilterFailed(rs))
               /\ pc' = "loop"
               /\ UNCHANGED <<stage, stageLog>>
  /\ UNCHANGED <<cfg, testCases, bugFixes, errors, idx, tcStore, sourceFile,
                 fixCalls, fixPasses, fixThrows, initialResults, aborted>>
  /\ Emit(<<Retest(Event("workflow.test.executed", "validating"))>> \o
          (IF stage' = "completed" THEN <<Event("workflow.completed", "completed")>>
           ELSE <<>>))

\* the executor threw in a re-execution
RevalidateThrows ==
  /\ Emit(<<Event("workflow.failed", "failed")>>)
  /\ pc = "revalidate"
  /\ CatchRun(MsgExecutor)
  /\ UNCHANGED <<cfg, testCases, testResults, bugFixes, failedResults, idx, retryCount,
                 tcStore, resStore, sourceFile, execLog, fixCalls, fixPasses,
                 fixThrows, initialResults>>

FinalStageAlwaysCompleted(results) == "completed"

\* Final status after the loop
FinalStage(results) == IF FailedCount(results) > 0 THEN "failed" ELSE "completed"

FinalStatusRecordsExhaustion ==
  /\ pc = "final"
  /\ SetStage(FinalStage(testResults))
  /\ pc' = "done"
  /\ errors' = IF stage' = "failed" THEN Append(errors, "retries exhausted") ELSE errors
  /\ UNCHANGED <<cfg, testCases, testResults, bugFixes, failedResults, idx,
                 retryCount, tcStore, resStore, sourceFile, execLog, fixCalls,
                 fixPasses, fixThrows, initialResults, aborted>>
  /\ Emit(IF stage' = "completed" THEN <<Event("workflow.completed", "completed")>>
          ELSE <<Event("workflow.failed", "failed")>>)

\* Final status after the loop, then return
FinalStatus ==
  /\ pc = "final"
  /\ SetStage(FinalStage(testResults))
  /\ pc' = "done"
  /\ UNCHANGED <<cfg, testCases, testResults, bugFixes, errors, failedResults, idx,
                 retryCount, tcStore, resStore, sourceFile, execLog, fixCalls,
                 fixPasses, fixThrows, initialResults, aborted>>
  /\ Emit(IF stage' = "completed" THEN <<Event("workflow.completed", "completed")>>
          ELSE <<Event("workflow.failed", "failed")>>)

\* The publish outcomes: whether the notifier is ready (initialised and
\* connected) and whether channel.publish rejects.
publishEventRethrows(ready, rejects) ==
  [threw |-> ready /\ rejects, delivered |-> ready /\ ~rejects]

\* AblyService.publishEvent: returns early when not ready; a rejected publish
\* is caught and logged. It never throws.
publishEvent(ready, rejects) ==
  [threw |-> FALSE, delivered |-> ready /\ ~rejects]

\* The try block of the run covers every publishEvent call but the one of
\* workflow.started and the one in the catch block.
InTry == pc # "start" /\ ~aborted

\* await ablyService.publishEvent(channel, event) for the next event handed
\* over. An exception out of it would reach the catch of the run inside the
\* try block and reject the run's promise outside it.
PublishEvent ==
  /\ pending # <<>>
  /\ events' = Append(events, Head(pending))
  /\ UNCHANGED <<cfg, testCases, testResults, bugFixes, failedResults, idx, retryCount,
                 tcStore, resStore, sourceFile, execLog, fixCalls, fixPasses,
                 fixThrows, initialResults, call, runs, disk, http, batchResults>>
  /\ \E ready \in BOOLEAN, rejects \in BOOLEAN :
       LET out == publishEvent(ready, rejects)
       IN /\ dropped' = (dropped \/ ~out.delivered)
          /\ IF ~out.threw
             THEN /\ pending' = Tail(pending)
                  /\ UNCHANGED <<pc, stage, stageLog, errors, aborted>>
             ELSE IF InTry
             THEN /\ CatchRun(MsgPublish)
                  /\ pending' = <<Event("workflow.failed", "failed")>>
             ELSE /\ pc' = "rejected"
                  /\ pending' = <<>>
                  /\ UNCHANGED <<stage, stageLog, errors, aborted>>

Next ==
  \/ EnterGenerating
  \/ GenerateOk
  \/ GenerateThrows
  \/ ExecuteOk
  \/ ExecuteThrows
  \/ LoopEnter
  \/ LoopExit
  \/ FixItemOk
  \/ FixItemThrows
  \/ EnterValidating
  \/ BreakManual
  \/ RevalidateOk
  \/ RevalidateThrows
  \/ FinalStatus
  \/ PublishEvent

Spec == Init /\ [][Next]_vars

\* Every step of a run is an awaited call that returns or throws: the run
\* keeps going until it returns.
FairSpec == Spec /\ WF_vars(Next)

\* state has the value the run returns
Returned == pc = "done"

\* the run has returned: nothing is left to publish
RunOver == Returned /\ pending = <<>>


\* ------------------------------------------------------------------ classifier on its own
\* autoFixFailedTest called directly on one stored test case and one failing
\* result, for every error text, verdict, reply and applyImmediately.
InitFix ==
  \E apply \in BOOLEAN, err \in TextsUpTo(ErrTokens, MaxErrLen),
     testCode \in Texts, sourceCode \in Texts :
    /\ cfg = [autoApplyFixes |-> apply, maxRetries |-> 0, enableAbly |-> FALSE,
              filePath |-> "calc.ts"]
    /\ pc = "classify"
    /\ stage = "fixing"
    /\ testCases = <<[id |-> 1, code |-> testCode, filePath |-> "calc.ts"]>>
    /\ testResults = <<FailResult(1, err)>>
    /\ bugFixes = <<>>
    /\ errors = <<>>
    /\ failedResults = <<FailResult(1, err)>>
    /\ idx = 1
    /\ retryCount = 0
    /\ tcStore = <<[id |-> 1, code |-> testCode, filePath |-> "calc.ts"]>>
    /\ resStore = <<FailResult(1, err)>>
    /\ sourceFile = sourceCode
    /\ stageLog = <<>>
    /\ execLog = <<>>
    /\ fixCalls = 0
    /\ fixPasses = 0
    /\ fixThrows = 0
    /\ initialResults = <<>>
    /\ aborted = FALSE
    /\ call = <<>>
    /\ pending = <<>>
    /\ events = <<>>
    /\ dropped = FALSE
    /\ runs = <<>>
    /\ disk = <<>>
    /\ http = <<>>
    /\ batchResults = <<>>

\* The call returned a BugFix.
ClassifyOk ==
  /\ pc = "classify"
  /\ \E verdict \in VerdictReplies, reply \in Texts :
       LET out == AutoFixFailedTest(failedResults[idx], cfg.autoApplyFixes, verdict,
                                    reply, FALSE, tcStore, sourceFile)
       IN /\ ~out.threw
          /\ bugFixes' = <<out.bugFix>>
          /\ tcStore' = out.store
          /\ sourceFile' = out.file
          /\ testCases' = SyncArray(testCases, out.store, failedResults[idx].testCaseId)
          /\ call' = [testCode |-> tcStore[failedResults[idx].testCaseId].code,
                      sourceCode |-> sourceFile,
                      verdict |-> verdict,
                      reply |-> reply]
  /\ pc' = "classified"
  /\ fixCalls' = fixCalls + 1
  /\ UNCHANGED <<cfg, stage, testResults, errors, failedResults, idx, retryCount,
                 resStore, stageLog, execLog, fixPasses, fixThrows, initialResults,
                 aborted, pending, events, dropped, runs, disk, http, batchResults>>

\* The call threw (the language model or the file system failed).
ClassifyThrows ==
  /\ pc = "classify"
  /\ LET out == AutoFixFailedTest(failedResults[idx], cfg.autoApplyFixes,
                                  [isString |-> TRUE, text |-> <<"TEST">>], "v0",
                                  TRUE, tcStore, sourceFile)
     IN /\ out.threw
        /\ errors' = <<out.message>>
  /\ pc' = "threw"
  /\ fixCalls' = fixCalls + 1
  /\ fixThrows' = fixThrows + 1
  /\ UNCHANGED <<cfg, stage, testCases, testResults, bugFixes, failedResults, idx,
                 retryCount, tcStore, resStore, sourceFile, stageLog, execLog,
                 fixPasses, initialResults, aborted, call, pending, events, dropped,
                 runs, disk, http, batchResults>>

NextFix == ClassifyOk \/ ClassifyThrows

SpecFix == InitFix /\ [][NextFix]_vars


\* ------------------------------------------------------------------ executors
\* executeJestTest and executeJUnitTest, one step per awaited call, on the
\* temp directory they share. The compiler, the test process and the file
\* system are nondeterministic.

\* Longest output text (in tokens) of a test process.
MaxOutLen == 2

\* Tokens of a JUnit console report: "CHECK" and "CROSS" stand for the
\* success and the failure mark, "NL" for a line break.
OutTokens ==
  {"CHECK", "CROSS", "FAILED", "AssertionError", "Exception", "SUCCESS",
   "testAdd()", "NL"}

MsgCommandFailed == "Command failed"
MsgShellNotFound == "not found"
MsgIo == "EACCES"
MsgNoJar == "JUnit jar not found and could not be downloaded"
MsgCompilation == "Compilation failed"
MsgExecution == "Test execution failed"
MsgSeeOutput == "Test execution failed - see output for details"

\* Test code: the class it declares (none: "") and the rest of it.
TestCodes == [className : {"CalcTest", ""}, body : {"b1", "b2"}]

\* What a tool finds where no file is.
Absent == [className |-> "", body |-> "absent"]

\* extractClassName: the declared class, 'TestClass' when there is none.
extractClassName(code) == IF code.className = "" THEN "TestClass" ELSE code.className

\* The temporary test file: <name>.<type>.ts for Jest, <className>.java for
\* JUnit, both in <cwd>/temp.
TestFileName(kind, tc) ==
  IF kind = "jest" THEN tc.name \o "." \o kind \o ".ts"
  ELSE extractClassName(tc.code) \o ".java"

\* The copy of the source file in the temp directory (JUnit only).
SourceCopyName(source) == source.className \o ".java"

ReadFile(d, name) == IF name \in DOMAIN d THEN d[name] ELSE Absent
WriteFile(d, name, content) == (name :> content) @@ d
Unlink(d, names) == [n \in DOMAIN d \ names |-> d[n]]

CountOf(text, t) == Cardinality({i \in DOMAIN text : text[i] = t})

\* outputText.match(/Exception.*CHECK/): a success mark after 'Exception' on
\* the same line.
ExceptionBeforeMark(text) ==
  \E i, j \in DOMAIN text :
    /\ i < j
    /\ text[i] = "Exception"
    /\ text[j] = "CHECK"
    /\ \A k \in i..j : text[k] # "NL"

HasExplicitFailures(text) ==
  \/ includes(text, "FAILED")
  \/ includes(text, "CROSS")
  \/ includes(text, "AssertionError")
  \/ includes(text, "AssertionFailedError")
  \/ (includes(text, "Exception") /\ ~ExceptionBeforeMark(text))

HasSuccessIndicators(text) ==
  \/ includes(text, "SUCCESS")
  \/ includes(text, "Test run finished")
  \/ includes(text, "tests successful")
  \/ (CountOf(text, "CHECK") > 0 /\ CountOf(text, "CROSS") = 0)

\* The verdict executeJUnitTest reads from the console output.
JUnitPassed(text) ==
  LET successCount == CountOf(text, "CHECK")
      failureCount == CountOf(text, "CROSS")
  IN IF failureCount > 0 \/ HasExplicitFailures(text) THEN FALSE
     ELSE IF successCount > 0 /\ failureCount = 0 THEN TRUE
     ELSE IF HasSuccessIndicators(text) /\ ~HasExplicitFailures(text) THEN TRUE
     ELSE includes(text, "testAdd()") /\ ~HasExplicitFailures(text)

ErrorLineTokens == {"AssertionError", "Exception", "FAILED"}

\* Characters of a text: its tokens and the separators between them.
RECURSIVE TextLength(_)
TextLength(text) ==
  IF text = <<>> THEN 0
  ELSE Len(Head(text)) + (IF Len(text) > 1 THEN 1 ELSE 0) + TextLength(Tail(text))

\* extractErrorMessage: the error lines with the lines after them, else the
\* end of the output, else a fixed message.
extractErrorMessage(output) ==
  LET hits == {i \in DOMAIN output : output[i] \in ErrorLineTokens}
      first == CHOOSE i \in hits : \A j \in hits : i <= j
  IN IF hits # {}
     THEN SelectSeq(SubSeq(output, first, Len(output)), LAMBDA t : t # "NL")
     ELSE IF output # <<>> THEN output ELSE <<MsgSeeOutput>>

\* The error of a failed JUnit result.
JUnitError(stdout, stderr) ==
  LET error == extractErrorMessage(stdout \o stderr)
  IN IF error = <<>> \/ TextLength(error) < 20
     THEN (IF stderr # <<>> THEN stderr
           ELSE IF stdout # <<>> THEN stdout ELSE <<MsgExecution>>)
     ELSE error

\* The result executeJUnitTest builds from the output of the test process.
JUnitResult(id, stdout, stderr) ==
  IF JUnitPassed(stdout \o stderr) THEN PassResult(id)
  ELSE FailResult(id, JUnitError(stdout, stderr))

\* What Jest wrote to stdout: a JSON report, or something else.
JestReports ==
  [json : {TRUE}, numFailedTests : 0..1, failureMessage : {<<>>, <<"expected">>}]
    \cup {[json |-> FALSE, numFailedTests |-> 0, failureMessage |-> <<>>]}

\* The result executeJestTest builds when the jest command resolves.
JestResult(id, report, stderr) ==
  IF report.json
  THEN IF report.numFailedTests > 0 THEN FailResult(id, report.failureMessage)
       ELSE PassResult(id)
  ELSE IF stderr # <<>> THEN FailResult(id, stderr) ELSE PassResult(id)

\* Output texts of a test process: every short text for a call on its own,
\* three of them when two calls run side by side or one after the other.
OutTexts ==
  IF Len(runs) = 1 /\ testCases = <<>> THEN TextsUpTo(OutTokens, MaxOutLen)
  ELSE {<<>>, <<"CHECK">>, <<"CROSS">>}

ErrTexts == {<<>>, <<"warning">>, <<"Exception">>}

\* An executor call before its first step; output is what the tool it
\* launched last has printed.
NewRun(kind, tc, source) ==
  [kind |-> kind, tc |-> tc, source |-> source, pcx |-> "write", fault |-> "none",
   copied |-> FALSE, saw |-> <<>>, sawSource |-> <<>>, output |-> <<>>,
   report |-> <<>>, result |-> <<>>]

Return(run, fault, result) ==
  [run EXCEPT !.pcx = "returned", !.fault = fault, !.result = <<result>>]

XWriteTestUncaught(r) ==
  /\ runs[r].pcx = "write"
  /\ runs' = [runs EXCEPT ![r].pcx = "threw", ![r].fault = "io"]
  /\ UNCHANGED disk

\* fs.mkdir and fs.writeFile of the test file, then (JUnit) the copy of the
\* source file; a file system error goes to the catch of the executor, an
\* unreadable source file is passed over.
XWriteTest(r) ==
  LET run == runs[r]
      testFile == TestFileName(run.kind, run.tc)
  IN /\ run.pcx = "write"
     /\ \/ /\ runs' = [runs EXCEPT ![r] = Return(run, "io", FailResult(run.tc.id, <<MsgIo>>))]
           /\ UNCHANGED disk
        \/ /\ run.kind = "jest"
           /\ disk' = WriteFile(disk, testFile, run.tc.code)
           /\ runs' = [runs EXCEPT ![r].pcx = "run"]
        \/ /\ run.kind = "junit"
           /\ \E readable \in BOOLEAN :
                LET copied == readable /\ run.source.className # ""
                IN /\ disk' = IF copied
                              THEN WriteFile(WriteFile(disk, testFile, run.tc.code),
                                             SourceCopyName(run.source), run.source)
                              ELSE WriteFile(disk, testFile, run.tc.code)
                   /\ runs' = [runs EXCEPT ![r].pcx = "compile",
                                           ![r].copied = copied]

XCompileRunsAnyway(r) ==
  /\ runs[r].pcx = "compile"
  /\ UNCHANGED disk
  /\ \E fault \in {"none", "compileError"} :
       runs' = [runs EXCEPT ![r].pcx = "run", ![r].fault = fault]

\* ensureJUnitJar, then javac under its 15 s timeout: any rejection returns
\* a failed result 'Compilation failed: ...'.
XCompile(r) ==
  LET run == runs[r]
      id == run.tc.id
      testFile == TestFileName(run.kind, run.tc)
  IN /\ run.pcx = "compile"
     /\ UNCHANGED disk
     /\ \/ runs' = [runs EXCEPT ![r] = Return(run, "nojar", FailResult(id, <<MsgNoJar>>))]
        \/ \E fault \in {"compileError", "compileTimeout", "nojavac"},
              diag \in {<<>>, <<"cannot find symbol">>} :
             LET stderr == IF fault = "nojavac" THEN <<MsgShellNotFound>> ELSE diag
                 compileError == IF stderr # <<>> THEN stderr ELSE <<MsgCommandFailed>>
             IN runs' = [runs EXCEPT ![r] =
                  [Return(run, fault, FailResult(id, <<MsgCompilation>> \o compileError))
                     EXCEPT !.saw = <<ReadFile(disk, testFile)>>,
                            !.output = stderr]]
        \/ /\ testFile \in DOMAIN disk
           /\ run.copied => SourceCopyName(run.source) \in DOMAIN disk
           /\ runs' = [runs EXCEPT ![r].pcx = "run",
                                   ![r].saw = <<ReadFile(disk, testFile)>>,
                                   ![r].sawSource =
                                      IF run.copied
                                      THEN <<ReadFile(disk, SourceCopyName(run.source))>>
                                      ELSE <<>>]

\* The jest command under its 30 s timeout: it resolves with what the
\* reporter wrote to stdout, or rejects (a non-zero exit on failing tests,
\* whose report is in the exec error and is not read; a missing npx; the
\* timeout) into the catch of the executor.
XRunJest(r) ==
  LET run == runs[r]
      id == run.tc.id
      testFile == TestFileName(run.kind, run.tc)
      seen == [run EXCEPT !.saw = <<ReadFile(disk, testFile)>>]
  IN /\ run.pcx = "run"
     /\ run.kind = "jest"
     /\ UNCHANGED disk
     /\ \/ \E report \in JestReports, stderr \in ErrTexts :
             runs' = [runs EXCEPT ![r] =
               [seen EXCEPT !.pcx = "cleanup",
                            !.report = <<report>>,
                            !.result = <<JestResult(id, report, stderr)>>]]
        \/ \E report \in {rep \in JestReports : rep.numFailedTests > 0} :
             runs' = [runs EXCEPT ![r] =
               Return([seen EXCEPT !.report = <<report>>], "testFailed",
                      FailResult(id, <<MsgCommandFailed>>))]
        \/ \E fault \in {"nonpx", "runTimeout"} :
             runs' = [runs EXCEPT ![r] =
               Return(IF fault = "nonpx" THEN run ELSE seen, fault,
                      FailResult(id, <<MsgCommandFailed>>))]

\* The java command under its 30 s timeout: resolved or rejected, its output
\* is parsed when there is any; a rejection without output returns a failed
\* result.
XRunJUnit(r) ==
  LET run == runs[r]
      id == run.tc.id
  IN /\ run.pcx = "run"
     /\ run.kind = "junit"
     /\ UNCHANGED disk
     /\ \/ \E stdout \in OutTexts, stderr \in ErrTexts :
             runs' = [runs EXCEPT ![r].pcx = "cleanup",
                                  ![r].output = stdout \o stderr,
                                  ![r].result = <<JUnitResult(id, stdout, stderr)>>]
        \/ \E fault \in {"testFailed", "runTimeout", "nojava"},
              out \in OutTexts, err \in ErrTexts :
             LET stdout == IF fault = "nojava" THEN <<>> ELSE out
                 errOut == IF fault = "nojava" THEN <<MsgShellNotFound>> ELSE err
                 stderr == IF errOut # <<>> THEN errOut ELSE <<MsgCommandFailed>>
             IN IF stdout = <<>> /\ stderr = <<>>
                THEN runs' = [runs EXCEPT ![r] =
                       Return(run, fault, FailResult(id, <<MsgExecution, MsgCommandFailed>>))]
                ELSE runs' = [runs EXCEPT ![r].pcx = "cleanup",
                                          ![r].fault = fault,
                                          ![r].output = stdout \o stderr,
                                          ![r].result = <<JUnitResult(id, stdout, stderr)>>]

\* fs.unlink of the temporary files (errors ignored), then return.
XCleanup(r) ==
  LET run == runs[r]
      testFile == TestFileName(run.kind, run.tc)
  IN /\ run.pcx = "cleanup"
     /\ disk' = IF run.copied
                THEN Unlink(disk, {testFile, SourceCopyName(run.source)})
                ELSE Unlink(disk, {testFile})
     /\ runs' = [runs EXCEPT ![r].pcx = "returned"]

\* The executor calls under way leave the workflow's own state alone.
WorkflowIdle ==
  UNCHANGED <<cfg, pc, stage, testCases, testResults, bugFixes, errors,
              failedResults, idx, retryCount, tcStore, resStore, sourceFile,
              stageLog, execLog, fixCalls, fixPasses, fixThrows, initialResults,
              aborted, call, pending, events, dropped, http, batchResults>>

\* A step of one of the executor calls under way.
WriteTest == (\E r \in DOMAIN runs : XWriteTest(r)) /\ WorkflowIdle
Compile == (\E r \in DOMAIN runs : XCompile(r)) /\ WorkflowIdle
RunJest == (\E r \in DOMAIN runs : XRunJest(r)) /\ WorkflowIdle
RunJUnit == (\E r \in DOMAIN runs : XRunJUnit(r)) /\ WorkflowIdle
Cleanup == (\E r \in DOMAIN runs : XCleanup(r)) /\ WorkflowIdle

NextExec ==
  \/ WriteTest
  \/ Compile
  \/ RunJest
  \/ RunJUnit
  \/ Cleanup

\* No workflow run: only executor calls.
InitNoRun ==
  /\ cfg = [autoApplyFixes |-> FALSE, maxRetries |-> 0, enableAbly |-> FALSE,
            filePath |-> "calc.ts"]
  /\ pc = "executor"
  /\ stage = "executing"
  /\ testCases = <<>>
  /\ testResults = <<>>
  /\ bugFixes = <<>>
  /\ errors = <<>>
  /\ failedResults = <<>>
  /\ idx = 0
  /\ retryCount = 0
  /\ tcStore = <<>>
  /\ resStore = <<>>
  /\ sourceFile = "v0"
  /\ stageLog = <<>>
  /\ execLog = <<>>
  /\ fixCalls = 0
  /\ fixPasses = 0
  /\ fixThrows = 0
  /\ initialResults = <<>>
  /\ aborted = FALSE
  /\ call = <<>>
  /\ pending = <<>>
  /\ events = <<>>
  /\ dropped = FALSE
  /\ http = <<>>
  /\ batchResults = <<>>

Kinds == {"jest", "junit"}
TestNames == {"add.test", "sub.test"}

\* One executor call, for every runtime kind and test case.
InitExec ==
  /\ InitNoRun
  /\ disk = <<>>
  /\ \E kind \in Kinds, id \in TestIds, code \in TestCodes :
       runs = <<NewRun(kind, [id |-> id, name |-> "add.test", code |-> code],
                       [className |-> "Calc", body |-> "s1"])>>

SpecExec == InitExec /\ [][NextExec]_vars

\* Two workflow runs at their execution stage, on different source files:
\* each executes its own test case, with an id, a body and a source text of
\* its own.
InitPair ==
  /\ InitNoRun
  /\ disk = <<>>
  /\ \E kinds \in [1..2 -> Kinds], names \in [1..2 -> TestNames],
        classes \in [1..2 -> {"CalcTest", ""}] :
       runs = [r \in 1..2 |->
                 NewRun(kinds[r],
                        [id |-> r, name |-> names[r],
                         code |-> [className |-> classes[r],
                                   body |-> IF r = 1 THEN "b1" ELSE "b2"]],
                        [className |-> "Calc", body |-> IF r = 1 THEN "s1" ELSE "s2"])]

SpecPair == InitPair /\ [][NextExec]_vars

\* ------------------------------------------------------------------ execution pass
\* executeJestTests / executeJUnitTests as the workflow calls them: one
\* executor call per test case of the array, each awaited before the next.
\* The pass is of at most MaxSize - 2 test cases.
BatchSizes == 0..(MaxSize - 2)

InitBatch ==
  /\ cfg = [autoApplyFixes |-> FALSE, maxRetries |-> 0, enableAbly |-> FALSE,
            filePath |-> "calc.ts"]
  /\ pc = "batch"
  /\ stage = "executing"
  /\ \E n \in BatchSizes, up \in BOOLEAN, kind \in Kinds :
       /\ testCases = [i \in 1..n |->
                         [id |-> IF up THEN i ELSE n + 1 - i, name |-> "add.test",
                          code |-> [className |-> "CalcTest", body |-> "b1"]]]
       /\ call = [testType |-> kind]
  /\ testResults = <<>>
  /\ batchResults = <<>>
  /\ bugFixes = <<>>
  /\ errors = <<>>
  /\ failedResults = <<>>
  /\ idx = 1
  /\ retryCount = 0
  /\ tcStore = <<>>
  /\ resStore = <<>>
  /\ sourceFile = "v0"
  /\ stageLog = <<>>
  /\ execLog = <<>>
  /\ fixCalls = 0
  /\ fixPasses = 0
  /\ fixThrows = 0
  /\ initialResults = <<>>
  /\ aborted = FALSE
  /\ pending = <<>>
  /\ events = <<>>
  /\ dropped = FALSE
  /\ http = <<>>
  /\ runs = <<>>
  /\ disk = <<>>

BatchIdle ==
  UNCHANGED <<cfg, stage, testCases, bugFixes, errors, failedResults, retryCount,
              tcStore, resStore, sourceFile, stageLog, execLog, fixCalls,
              fixPasses, fixThrows, initialResults, aborted, call, pending,
              events, dropped, http, disk>>

BatchCallAll ==
  /\ pc = "batch"
  /\ Len(runs) < Len(testCases)
  /\ runs' = Append(runs, NewRun(call.testType, testCases[Len(runs) + 1],
                                 [className |-> "Calc", body |-> "s1"]))
  /\ UNCHANGED <<pc, idx, batchResults, testResults>>
  /\ BatchIdle

\* for (const testCase of testCases) { const result = await execute...Test(testCase)
BatchCall ==
  /\ pc = "batch"
  /\ idx <= Len(testCases)
  /\ Len(runs) = idx - 1
  /\ runs' = Append(runs, NewRun(call.testType, testCases[idx],
                                 [className |-> "Calc", body |-> "s1"]))
  /\ UNCHANGED <<pc, idx, batchResults, testResults>>
  /\ BatchIdle

\* ... results.push(result) }
BatchPush ==
  /\ pc = "batch"
  /\ \E r \in DOMAIN runs :
       /\ r = Len(batchResults) + 1
       /\ runs[r].pcx = "returned"
       /\ batchResults' = Append(batchResults, runs[r].result[1])
  /\ idx' = idx + 1
  /\ UNCHANGED <<pc, runs, testResults>>
  /\ BatchIdle

\* return results; state.testResults = testResults
BatchReturn ==
  /\ pc = "batch"
  /\ Len(batchResults) = Len(testCases)
  /\ testResults' = batchResults
  /\ pc' = "batchDone"
  /\ UNCHANGED <<idx, runs, batchResults>>
  /\ BatchIdle

NextBatch ==
  \/ BatchCall
  \/ BatchPush
  \/ BatchReturn
  \/ WriteTest
  \/ Compile
  \/ RunJest
  \/ RunJUnit
  \/ Cleanup

SpecBatch == InitBatch /\ [][NextBatch]_vars

\* ------------------------------------------------------------------ HTTP layer
\* POST /workflow/start of src/src/server.ts. A field of the request body is
\* absent (<<>>) or present with a value (<<v>>).
Opt(S) == {<<>>} \cup {<<v>> : v \in S}

\* a || b on strings: the empty string is falsy
OrElse(opt, default) == IF opt = <<>> \/ opt[1] = "" THEN default ELSE opt[1]

\* a ?? b
Nullish(opt, default) == IF opt = <<>> THEN default ELSE opt[1]

\* maxRetries: req.body.maxRetries ?? 2
DefaultMaxRetries == 2

\* The request bodies explored. A long retry budget keeps the run it starts
\* short; a request that leaves maxRetries out leaves enableAbly out too.
Bodies ==
  {b \in [filePath : Opt({"", "calc.ts"}),
          testType : Opt({"", "junit", "mocha"}),
          autoApplyFixes : Opt({FALSE}),
          maxRetries : Opt({MaxSize - 1}),
          enableAbly : Opt({FALSE}),
          workflowId : Opt({})] :
     b.maxRetries = <<>> => b.enableAbly = <<>>}

\* const options: WorkflowOptions = { ... } with the defaults of the handler
Options(body) ==
  [filePath |-> OrElse(body.filePath, ""),
   testType |-> OrElse(body.testType, "jest"),
   autoApplyFixes |-> Nullish(body.autoApplyFixes, TRUE),
   maxRetries |-> Nullish(body.maxRetries, DefaultMaxRetries),
   workflowId |-> OrElse(body.workflowId, "workflow-1"),
   enableAbly |-> Nullish(body.enableAbly, TRUE)]

validateFilePathOnly(options) ==
  IF options.filePath = "" THEN "filePath is required"
  ELSE ""

\* Validate required fields: the message of the 400 response, "" when the
\* options pass.
validate(options) ==
  IF options.filePath = "" THEN "filePath is required"
  ELSE IF options.testType \notin {"jest", "junit"}
  THEN "testType must be \"jest\" or \"junit\""
  ELSE ""

\* ablyService.getWorkflowChannel
getWorkflowChannel(workflowId) == "workflow:" \o workflowId

ErrorResponse(message) == [status |-> 400, error |-> message]

\* res.json({success, workflowId, status: 'started', message, channel})
StartedResponse(options) ==
  [status |-> 200, success |-> TRUE, workflowId |-> options.workflowId,
   state |-> "started", channel |-> getWorkflowChannel(options.workflowId)]

\* runClosedLoopWorkflow(options) up to its first await: with notifications
\* that is the publish of workflow.started; without, the state record is
\* created and state.stage = 'generating' is set before generateTestsForFile
\* is awaited.
StartRun(c) ==
  /\ cfg' = c
  /\ pc' = IF c.enableAbly THEN "start" ELSE "generate"
  /\ stage' = IF c.enableAbly THEN "parsing" ELSE "generating"
  /\ stageLog' = IF c.enableAbly THEN <<"parsing">> ELSE <<"parsing", "generating">>
  /\ pending' = Emitted(c, <<Event("workflow.started", "parsing")>>)
  /\ testCases' = <<>>
  /\ testResults' = <<>>
  /\ bugFixes' = <<>>
  /\ errors' = <<>>
  /\ failedResults' = <<>>
  /\ idx' = 0
  /\ retryCount' = 0
  /\ tcStore' = <<>>
  /\ resStore' = <<>>
  /\ sourceFile' = "v0"
  /\ execLog' = <<>>
  /\ fixCalls' = 0
  /\ fixPasses' = 0
  /\ fixThrows' = 0
  /\ initialResults' = <<>>
  /\ aborted' = FALSE
  /\ events' = <<>>
  /\ dropped' = FALSE
  /\ UNCHANGED <<call, runs, disk, batchResults>>

\* app.post('/workflow/start', ...): the options are built and validated; a
\* valid request starts the run without awaiting it and is answered at once.
PostWorkflowStart ==
  /\ pc = "idle"
  /\ http.response = <<>>
  /\ LET options == Options(http.request)
         message == validate(options)
     IN IF message # ""
        THEN /\ http' = [http EXCEPT !.response = <<ErrorResponse(message)>>]
             /\ UNCHANGED <<cfg, pc, stage, testCases, testResults, bugFixes, errors,
                            failedResults, idx, retryCount, tcStore, resStore,
                            sourceFile, stageLog, execLog, fixCalls, fixPasses,
                            fixThrows, initialResults, aborted, call, pending,
                            events, dropped, runs, disk, batchResults>>
        ELSE /\ StartRun([autoApplyFixes |-> options.autoApplyFixes,
                          maxRetries |-> options.maxRetries,
                          enableAbly |-> options.enableAbly,
                          filePath |-> options.filePath])
             /\ http' = [http EXCEPT !.response = <<StartedResponse(options)>>,
                                     !.started = http.started + 1,
                                     !.stageAtResponse = <<stage'>>]

\* The server is up and one request has arrived.
InitServer ==
  /\ cfg = [autoApplyFixes |-> FALSE, maxRetries |-> 0, enableAbly |-> FALSE,
            filePath |-> ""]
  /\ pc = "idle"
  /\ stage = "parsing"
  /\ testCases = <<>>
  /\ testResults = <<>>
  /\ bugFixes = <<>>
  /\ errors = <<>>
  /\ failedResults = <<>>
  /\ idx = 0
  /\ retryCount = 0
  /\ tcStore = <<>>
  /\ resStore = <<>>
  /\ sourceFile = "v0"
  /\ stageLog = <<>>
  /\ execLog = <<>>
  /\ fixCalls = 0
  /\ fixPasses = 0
  /\ fixThrows = 0
  /\ initialResults = <<>>
  /\ aborted = FALSE
  /\ call = <<>>
  /\ pending = <<>>
  /\ events = <<>>
  /\ dropped = FALSE
  /\ runs = <<>>
  /\ disk = <<>>
  /\ batchResults = <<>>
  /\ \E body \in Bodies :
       http = [request |-> body, response |-> <<>>, started |-> 0,
               stageAtResponse |-> <<>>]

NextServer ==
  \/ PostWorkflowStart
  \/ Next

SpecServer == InitServer /\ [][NextServer]_vars


\* ------------------------------------------------------------------ claims
ValidatingPasses == Count(stageLog, "validating")

\* C1: when the generation collaborator or the executor throws, the run still
\* returns: the stage is 'failed' and state.errors has exactly one entry more
\* than the per-item fix failures before it, the thrown error's message.
C1_ThrowIsCaught ==
  aborted =>
    /\ Returned
    /\ stage = "failed"
    /\ Len(errors) = fixThrows + 1
    /\ errors[Len(errors)] \in {MsgGeneration, MsgExecutor, MsgUnsupported, MsgNoFile}
    /\ \A i \in 1..(Len(errors) - 1) : errors[i] = MsgFix

\* A re-execution threw after a fix attempt of the pass before it had thrown.
C1_Witness ==
  /\ aborted
  /\ errors = <<MsgFix, MsgExecutor>>
  /\ ValidatingPasses = 1

\* Steps a run can still take, at most: one pass is the loop test, a fix
\* attempt per failing result, the entry into 'validating' and the
\* re-execution.
PassWeight(n) == n + 3

StepsLeft ==
  LET left == cfg.maxRetries - retryCount
      w == PassWeight(Len(testCases))
      steps ==
        CASE pc = "done" -> 0
          [] pc = "final" -> 1
          [] pc = "loop" -> 2 + left * w
          [] pc = "revalidate" -> 3 + (left - 1) * w
          [] pc = "fix" -> 4 + (left - 1) * w + (Len(failedResults) + 1 - idx)
          [] pc = "execute" -> 3 + cfg.maxRetries * w
          [] pc = "generate" -> 4 + cfg.maxRetries * PassWeight(MaxSize)
          [] pc = "start" -> 5 + cfg.maxRetries * PassWeight(MaxSize)
  \* a step of the run hands over at most two events, each published in a
  \* step of its own
  IN 3 * steps + Len(pending)

\* C2: every run returns: each step of a run lowers the number of steps it
\* can still take, a run that has not returned can always take a step, and at
\* return the stage is 'completed' or 'failed'.
C2_ReturnsTerminal ==
  /\ [][StepsLeft' < StepsLeft]_vars
  /\ [](StepsLeft >= 0)
  /\ [](RunOver \/ ENABLED Next)
  /\ [](Returned => stage \in {"completed", "failed"})

\* A run that used its whole retry budget of two passes and returned.
C2_Witness ==
  /\ Returned
  /\ cfg.autoApplyFixes
  /\ cfg.maxRetries = 2
  /\ retryCount = 2
  /\ stage = "failed"
  /\ ~aborted

\* C3: if the initial execution pass has no failing result, the stage goes
\* from 'executing' straight to 'completed', the run returns, bugFixes is
\* empty, the stage is never 'fixing' or 'validating' and the classifier is
\* never called.
C3_NoFixOnFullPass ==
  (Len(execLog) >= 1 /\ execLog[1] = 0) =>
    /\ Returned
    /\ stage = "completed"
    /\ stageLog = <<"parsing", "generating", "executing", "completed">>
    /\ bugFixes = <<>>
    /\ fixCalls = 0
    /\ fixPasses = 0

\* Two test cases, both passing in the initial pass, with retries allowed.
C3_Witness ==
  /\ Returned
  /\ Len(testResults) = 2
  /\ execLog = <<0>>
  /\ cfg.maxRetries >= 1
  /\ cfg.autoApplyFixes

\* C4: with autoApplyFixes and maxRetries >= 1, if the k-th re-execution
\* (1 <= k <= maxRetries) is the first pass with no failing result, the run
\* ends 'completed' after exactly k fix passes and k re-executions, and
\* state.testResults has no failing entry.
C4_ConvergesAtK ==
  \A k \in 1..cfg.maxRetries :
    ( /\ cfg.autoApplyFixes
      /\ Len(execLog) >= k + 1
      /\ execLog[k + 1] = 0
      /\ \A j \in 1..k : execLog[j] > 0 ) =>
    /\ Returned
    /\ stage = "completed"
    /\ fixPasses = k
    /\ ValidatingPasses = k
    /\ Len(execLog) = k + 1
    /\ FailedCount(testResults) = 0

\* The second re-execution is the first pass without failures.
C4_Witness ==
  /\ Returned
  /\ cfg.autoApplyFixes
  /\ Len(execLog) = 3
  /\ execLog[1] > 0 /\ execLog[2] > 0 /\ execLog[3] = 0
  /\ cfg.maxRetries = 3


\* A run with autoApplyFixes that returned without a run-wide error and
\* without a throwing fix attempt, every execution pass reporting a failure.
NeverFixedRun ==
  /\ Returned
  /\ cfg.autoApplyFixes
  /\ ~aborted
  /\ fixThrows = 0
  /\ Len(execLog) >= 1
  /\ \A j \in 1..Len(execLog) : execLog[j] >= 1

ExhaustedAfterMaxRetries ==
  /\ stage = "failed"
  /\ fixPasses = cfg.maxRetries
  /\ ValidatingPasses = cfg.maxRetries
  /\ Len(execLog) = cfg.maxRetries + 1

\* C5 as claimed: f is a lower bound of the failing counts of the
\* re-executions only (the initial pass just fails).
C5_AsClaimed ==
  NeverFixedRun =>
    /\ ExhaustedAfterMaxRetries
    /\ \A f \in 1..MaxSize :
         (\A j \in 2..Len(execLog) : execLog[j] >= f) =>
           Len(bugFixes) >= cfg.maxRetries * f

\* C5 (amended): with autoApplyFixes, if the initial execution and every
\* re-execution report at least f >= 1 failing cases and no fix attempt
\* throws, the run ends 'failed' after exactly maxRetries fix-and-revalidate
\* passes and bugFixes.length >= maxRetries * f.
C5_Exhaustion ==
  NeverFixedRun =>
    /\ ExhaustedAfterMaxRetries
    /\ \A f \in 1..MaxSize :
         (\A j \in 1..Len(execLog) : execLog[j] >= f) =>
           Len(bugFixes) >= cfg.maxRetries * f

\* Two passes over two failing cases each: four fixes, then 'failed'.
C5_Witness ==
  /\ NeverFixedRun
  /\ cfg.maxRetries = 2
  /\ execLog = <<2, 2, 2>>
  /\ Len(bugFixes) = 4

\* A run without autoApplyFixes that returned with n >= 1 initially failing
\* cases and no throwing fix attempt.
ManualRun ==
  /\ Returned
  /\ ~cfg.autoApplyFixes
  /\ ~aborted
  /\ Len(execLog) >= 1
  /\ execLog[1] >= 1

SinglePassNoRetest ==
  /\ Len(bugFixes) = execLog[1]
  /\ testResults = initialResults
  /\ Len(execLog) = 1
  /\ ValidatingPasses = 0

\* C6 as claimed: for every maxRetries >= 0.
C6_AsClaimed == (ManualRun /\ fixThrows = 0) => SinglePassNoRetest

\* C6 (amended): with autoApplyFixes = false, for every maxRetries >= 1 and
\* every number n >= 1 of initially failing cases, when no fix attempt throws
\* bugFixes.length = n and no re-execution occurs: state.testResults at
\* return is the result list of the initial pass.
C6_ManualSinglePass ==
  (ManualRun /\ fixThrows = 0 /\ cfg.maxRetries >= 1) => SinglePassNoRetest

\* Three initially failing cases, one fix each.
C6_Witness ==
  /\ ManualRun
  /\ fixThrows = 0
  /\ cfg.maxRetries = 1
  /\ execLog = <<3>>
  /\ Len(bugFixes) = 3

\* C7: with autoApplyFixes = false, a run with a failing result after the
\* initial execution ends 'failed' after its single fix-proposal pass (none
\* when maxRetries = 0), without any re-execution, also when errors is empty.
C7_ManualEndsFailed ==
  ManualRun =>
    /\ stage = "failed"
    /\ fixPasses = (IF cfg.maxRetries >= 1 THEN 1 ELSE 0)
    /\ fixCalls = fixPasses * execLog[1]
    /\ Len(execLog) = 1
    /\ ValidatingPasses = 0
    /\ retryCount = 0

\* Every fix of the pass was produced, errors is empty, and the run failed.
C7_Witness ==
  /\ ManualRun
  /\ errors = <<>>
  /\ Len(bugFixes) = 2
  /\ execLog = <<2>>
  /\ stage = "failed"

\* C8: with autoApplyFixes, retries are counted per batch: at return the
\* number of fix passes equals the number of validating passes, neither
\* exceeds maxRetries, no fix pass runs once retryCount has reached
\* maxRetries, and a run whose retryCount reached maxRetries with failures
\* left returns 'failed'.
C8_RetryPerBatch ==
  cfg.autoApplyFixes =>
    /\ retryCount <= cfg.maxRetries
    /\ fixPasses <= cfg.maxRetries
    /\ ValidatingPasses <= fixPasses
    /\ fixPasses <= ValidatingPasses + 1
    /\ (pc = "fix" => retryCount < cfg.maxRetries /\ fixPasses = retryCount + 1)
    /\ (Returned => fixPasses = ValidatingPasses)
    /\ (Returned /\ ~aborted /\ retryCount = cfg.maxRetries /\ FailedCount(testResults) > 0
          => stage = "failed" /\ fixPasses = cfg.maxRetries)

\* Three failing batches of one case: three passes, three re-executions.
C8_Witness ==
  /\ Returned
  /\ cfg.autoApplyFixes
  /\ cfg.maxRetries = 3
  /\ retryCount = 3
  /\ fixPasses = 3
  /\ ValidatingPasses = 3
  /\ stage = "failed"


\* The test-is-broken signatures, on the raw error text in any case.
HasToken(err, t) == \E i \in DOMAIN err : LowerTok(err[i]) = t

TestBrokenSignature(err) ==
  \/ \E t \in {"import", "cannot find", "is not defined", "typeerror",
               "referenceerror", "compilation failed", "cannot be resolved",
               "no such method", "method not found"} : HasToken(err, t)
  \/ (HasToken(err, "package") /\ HasToken(err, "does not exist"))

\* C9: for a failing result whose error text matches a test-is-broken
\* signature, autoFixFailedTest takes the test branch whatever the verdict
\* of the generation service is: the BugFix's originalCode is the test's
\* code and the source file is unchanged.
C9_HeuristicDominates ==
  (pc = "classified" /\ TestBrokenSignature(failedResults[1].error)) =>
    /\ bugFixes[1].description = "Fixed test case"
    /\ bugFixes[1].originalCode = call.testCode
    /\ bugFixes[1].fixedCode = call.reply
    /\ tcStore[1].code = call.reply
    /\ sourceFile = call.sourceCode

\* The service says SOURCE, the error is a mixed-case TypeError, the test
\* and the source differ, and the call would have applied a source fix.
C9_Witness ==
  /\ pc = "classified"
  /\ failedResults[1].error = <<"TypeError", "expected">>
  /\ call.verdict = [isString |-> TRUE, text |-> <<"source">>]
  /\ call.testCode = "v0"
  /\ call.sourceCode = "v1"
  /\ call.reply = "v0"
  /\ cfg.autoApplyFixes
  /\ bugFixes[1].originalCode = "v0"

\* The scenario of C10 at return: A passes and B fails with 'cannot find
\* symbol: Foo' in the first execution, B's fix is produced and the
\* re-execution passes.
C10_Scenario ==
  /\ Returned
  /\ cfg.autoApplyFixes
  /\ cfg.maxRetries = 2
  /\ Len(testCases) = 2
  /\ initialResults = <<PassResult(1), FailResult(2, ErrSymbolFoo)>>
  /\ fixThrows = 0
  /\ ~aborted
  /\ Len(execLog) >= 2
  /\ execLog[2] = 0

\* C10: in that scenario the fix for B is a test fix, the final stage is
\* 'completed' and bugFixes.length = 1.
C10_SymbolScenario ==
  C10_Scenario =>
    /\ stage = "completed"
    /\ Len(bugFixes) = 1
    /\ bugFixes[1].testCaseId = 2
    /\ bugFixes[1].description = "Fixed test case"
    /\ bugFixes[1].originalCode = "v0"
    /\ bugFixes[1].applied
    /\ sourceFile = "v0"
    /\ testCases[2] = [id |-> 2, code |-> bugFixes[1].fixedCode, filePath |-> cfg.filePath]

C10_Witness == C10_Scenario /\ Len(bugFixes) = 1 /\ stage = "completed"

\* The branch autoFixFailedTest took in the call under check.
TookTestBranch == bugFixes[1].description = "Fixed test case"

\* C11 as claimed: the replacement is persisted and the BugFix marked applied
\* only when applyImmediately is true; when it is false the stored test
\* case's code and the source file are as before the call and applied is
\* false.
C11_AsClaimed ==
  pc = "classified" =>
    /\ bugFixes[1].applied = cfg.autoApplyFixes
    /\ bugFixes[1].fixedCode = call.reply
    /\ IF cfg.autoApplyFixes
       THEN IF TookTestBranch
            THEN tcStore[1].code = call.reply /\ sourceFile = call.sourceCode
            ELSE sourceFile = call.reply /\ tcStore[1].code = call.testCode
       ELSE tcStore[1].code = call.testCode /\ sourceFile = call.sourceCode

RECURSIVE SumTo(_, _)
SumTo(seq, n) == IF n <= 0 THEN 0 ELSE seq[n] + SumTo(seq, n - 1)

\* Fix attempts made so far when every failing result of every pass begun
\* gets its attempt: all of the passes before, and those before idx in the
\* pass under way.
AttemptsDue ==
  IF pc = "fix" THEN SumTo(execLog, fixPasses - 1) + (idx - 1)
  ELSE SumTo(execLog, fixPasses)

\* C12: a throwing fix attempt appends its message to state.errors, leaves
\* the stage alone and moves on to the next failing result; every failing
\* result of a pass gets its attempt, and after the last one the pass goes on
\* to the re-execution (with autoApplyFixes) whatever has thrown.
C12_FixFailureIsolated ==
  /\ [][fixThrows' > fixThrows =>
          /\ errors' = Append(errors, MsgFix)
          /\ stage' = stage
          /\ ~aborted'
          /\ pc' = "fix"
          /\ idx' = idx + 1]_vars
  /\ [][(pc = "fix" /\ pc' # "fix") =>
          /\ idx = Len(failedResults) + 1
          /\ IF cfg.autoApplyFixes
             THEN pc' = "revalidate" /\ stage' = "validating"
             ELSE pc' = "final" /\ stage' = stage]_vars
  /\ [](/\ fixCalls = AttemptsDue
        /\ Len(bugFixes) + fixThrows = fixCalls
        /\ Len(errors) >= fixThrows)

\* The attempt for the first of two failing results threw, the second got
\* its fix, and the re-execution ran.
C12_Witness ==
  /\ cfg.autoApplyFixes
  /\ errors = <<MsgFix>>
  /\ fixPasses = 1
  /\ Len(bugFixes) = 1
  /\ bugFixes[1].testCaseId = 2
  /\ initialResults[1].passed = FALSE
  /\ Len(execLog) = 2
  /\ ~aborted

\* C13: a run that ends 'failed' without a throw in generation or execution
\* has no error entry for the exhaustion: state.errors holds exactly the
\* messages of the fix attempts that threw, and is empty when none did.
C13_NoErrorForExhaustion ==
  (Returned /\ stage = "failed" /\ ~aborted) =>
    /\ Len(errors) = fixThrows
    /\ \A i \in 1..Len(errors) : errors[i] = MsgFix
    /\ (fixThrows = 0 => errors = <<>>)

\* Two passes used up, no fix attempt threw, errors empty.
C13_Witness ==
  /\ RunOver
  /\ stage = "failed"
  /\ ~aborted
  /\ cfg.autoApplyFixes
  /\ cfg.maxRetries = 2
  /\ fixPasses = 2
  /\ Len(bugFixes) >= 2
  /\ errors = <<>>

\* C14 as claimed: a target file with an unsupported extension or a missing
\* filePath never enters workflow state: no entry of state.errors, no
\* WorkflowState with stage 'failed'.
C14_AsClaimed ==
  parseCodeMetadata(cfg.filePath).threw => (errors = <<>> /\ stage # "failed")

TerminalTypes == {"workflow.completed", "workflow.failed"}

\* The events of the run so far, published or still to publish.
AllEvents == events \o pending

TerminalEvents(evs) == SelectSeq(evs, LAMBDA e : e.type \in TerminalTypes)

\* C15: with notifications enabled a run hands exactly one terminal event to
\* the notifier on every path, as its last event, and it is
\* workflow.completed exactly when the returned stage is 'completed'.
C15_OneTerminalEvent ==
  cfg.enableAbly =>
    /\ Len(TerminalEvents(AllEvents)) <= 1
    /\ (Len(TerminalEvents(AllEvents)) = 1 =>
          /\ Returned
          /\ AllEvents[Len(AllEvents)].type \in TerminalTypes)
    /\ (Returned => Len(TerminalEvents(AllEvents)) = 1)
    /\ (RunOver =>
          /\ Len(TerminalEvents(events)) = 1
          /\ events[1].type = "workflow.started"
          /\ events[Len(events)].type =
               (IF stage = "completed" THEN "workflow.completed" ELSE "workflow.failed")
          /\ events[Len(events)].stage = stage)

\* A run that converged after one fix pass and published workflow.completed
\* last.
C15_Witness ==
  /\ RunOver
  /\ cfg.enableAbly
  /\ cfg.autoApplyFixes
  /\ stage = "completed"
  /\ Len(bugFixes) = 1
  /\ events[Len(events)] = Event("workflow.completed", "completed")
  /\ Len(events) >= 10

\* C16: a publishEvent call, whether the notifier is ready or not and whether
\* the publish is rejected or not, changes nothing of the run: no field of
\* the state, not its position; no publish failure is ever in state.errors,
\* aborts the run or rejects its promise, so the state a run returns depends
\* on its configuration and its collaborators' outcomes only.
C16_PublishNeverInterferes ==
  /\ [][events' # events =>
          UNCHANGED <<cfg, pc, stage, testCases, testResults, bugFixes, errors,
                      failedResults, idx, retryCount, tcStore, resStore, sourceFile,
                      aborted>>]_vars
  /\ [](/\ pc # "rejected"
        /\ \A i \in 1..Len(errors) : errors[i] # MsgPublish
        /\ Len(errors) = fixThrows + (IF aborted THEN 1 ELSE 0)
        /\ (~cfg.enableAbly => events = <<>> /\ pending = <<>> /\ ~dropped))

\* A run whose publishes were dropped and that still completed after a fix.
C16_Witness ==
  /\ RunOver
  /\ cfg.enableAbly
  /\ dropped
  /\ stage = "completed"
  /\ Len(bugFixes) = 1
  /\ errors = <<>>

\* The stages the run has reported: those of its stage-change events and of
\* its terminal event, in order.
StageEvents(evs) ==
  LET reported == SelectSeq(evs, LAMBDA e :
                    e.type \in TerminalTypes \cup {"workflow.stage.changed"})
  IN [i \in DOMAIN reported |-> reported[i].stage]

StageRank(s) ==
  CASE s = "parsing" -> 0
    [] s = "generating" -> 1
    [] s = "executing" -> 2
    [] s = "fixing" -> 3
    [] s = "validating" -> 4
    [] s \in {"completed", "failed"} -> 5

NonDecreasing(stages) ==
  \A i \in 1..(Len(stages) - 1) : StageRank(stages[i]) <= StageRank(stages[i + 1])

Reports(stages, s) == \E i \in DOMAIN stages : stages[i] = s

\* C17 as claimed: the reported stages never go back, and a run that no
\* collaborator error aborts skips no stage, except fixing and validating
\* when the first execution pass has no failure.
C17_AsClaimed ==
  (cfg.enableAbly /\ RunOver /\ ~aborted) =>
    LET stages == StageEvents(events)
    IN /\ NonDecreasing(stages)
       /\ Reports(stages, "generating")
       /\ Reports(stages, "executing")
       /\ (execLog[1] > 0 => Reports(stages, "fixing") /\ Reports(stages, "validating"))

\* C17 (amended): the reported stages never go back; a run that no
\* collaborator error aborts reports generating and executing, reports fixing
\* exactly when the first pass has a failure, and reports validating exactly
\* when moreover autoApplyFixes is set and maxRetries >= 1; a run that a
\* collaborator error aborts reports 'failed' right after the stage it was in.
C17_StageOrder ==
  cfg.enableAbly =>
    LET stages == StageEvents(AllEvents)
    IN /\ NonDecreasing(stages)
       /\ (RunOver /\ ~aborted =>
             /\ Reports(stages, "generating")
             /\ Reports(stages, "executing")
             /\ (Reports(stages, "fixing") <=> execLog[1] > 0)
             /\ (Reports(stages, "validating") <=>
                   (execLog[1] > 0 /\ cfg.autoApplyFixes /\ cfg.maxRetries >= 1)))
       /\ (RunOver /\ aborted =>
             /\ stages[Len(stages)] = "failed"
             /\ Len(stages) >= 2
             /\ stages[Len(stages) - 1] = stageLog[Len(stageLog) - 1]
             /\ \A s \in {"executing", "fixing", "validating"} :
                  Reports(stages, s) => Reports(stages, "generating"))

\* Two fix passes: validating is reported twice, then failed.
C17_Witness ==
  /\ RunOver
  /\ cfg.enableAbly
  /\ ~aborted
  /\ StageEvents(events) =
       <<"generating", "executing", "fixing", "validating", "validating", "failed">>

\* Failures of the tooling itself: the file system, a missing JUnit jar, a
\* missing javac, java or npx.
ToolingFaults == {"io", "nojar", "nojavac", "nojava", "nonpx"}

\* C18: executeJestTest and executeJUnitTest never propagate an exception:
\* whatever the outcome (failing test, compilation failure, missing tooling,
\* file system failure, timeout) the call goes on until it returns one
\* TestResult, whose testCaseId is the id of the test case given; a tooling
\* failure yields passed = false.
C18_ExecutorNeverThrows ==
  \A r \in DOMAIN runs :
    LET run == runs[r]
    IN /\ run.pcx # "threw"
       /\ (run.pcx # "returned" => ENABLED NextExec)
       /\ (run.pcx = "returned" =>
             /\ Len(run.result) = 1
             /\ run.result[1].testCaseId = run.tc.id
             /\ (run.fault \in ToolingFaults => ~run.result[1].passed)
             /\ (run.fault \in {"compileError", "compileTimeout"} =>
                   ~run.result[1].passed))

\* java is missing when the compiled test is to run: the shell's message is
\* parsed as the report and the result is a failure for test case 2.
C18_Witness ==
  /\ Len(runs) = 1
  /\ runs[1].pcx = "returned"
  /\ runs[1].kind = "junit"
  /\ runs[1].fault = "nojava"
  /\ runs[1].result = <<FailResult(2, <<MsgShellNotFound>>)>>

\* C19 as claimed: a compilation or a test run that exceeds its timeout gives
\* a TestResult with passed = false and an error text, for both runtime kinds
\* and whatever the process had written before.
C19_AsClaimed ==
  \A r \in DOMAIN runs :
    (runs[r].pcx = "returned" /\ runs[r].fault \in {"compileTimeout", "runTimeout"}) =>
      /\ ~runs[r].result[1].passed
      /\ runs[r].result[1].error # <<>>

\* C20 as claimed: what the executor of a run reads is what that run put
\* there: the test file it compiles or runs holds its own test code and the
\* source copy its own source, whatever the other run does meanwhile.
C20_AsClaimed ==
  \A r \in DOMAIN runs :
    /\ \A i \in DOMAIN runs[r].saw : runs[r].saw[i] = runs[r].tc.code
    /\ \A i \in DOMAIN runs[r].sawSource : runs[r].sawSource[i] = runs[r].source

\* The request has no filePath (absent or empty).
FilePathMissing == http.request.filePath \in {<<>>, <<"">>}

\* What a valid request is answered, and when: the run was started once and
\* had reached no terminal stage when the response was sent; the response
\* stays what it was whatever the run does afterwards.
AnsweredStarted ==
  /\ http.started = 1
  /\ http.response = <<StartedResponse(Options(http.request))>>
  /\ http.stageAtResponse \in {<<"parsing">>, <<"generating">>}

\* What an invalid request is answered: an error, and no run is started.
AnsweredError ==
  /\ http.started = 0
  /\ Len(http.response) = 1
  /\ "error" \in DOMAIN http.response[1]
  /\ pc = "idle"

C22_StageForward ==
  /\ stageLog # <<>> => stage = stageLog[Len(stageLog)]
  /\ \A i \in 1..(Len(stageLog) - 1) :
       LET from == stageLog[i]
           to == stageLog[i + 1]
       IN /\ from \notin {"completed", "failed"}
          /\ \/ from = to
             \/ StageRank(from) < StageRank(to)
             \/ (from = "validating" /\ to = "fixing")
  /\ \A i, j \in DOMAIN stageLog :
       (i < j /\ stageLog[j] \in {"parsing", "generating"}) =>
         StageRank(stageLog[i]) <= StageRank(stageLog[j])

\* A run of two fix passes that ends failed: every stage was taken in order.
C22_Witness ==
  /\ RunOver
  /\ stageLog = <<"parsing", "generating", "executing", "fixing", "validating",
                  "validating", "failed">>

\* C23 as claimed: the stage is 'fixing' whenever the fix classifier is about
\* to be invoked, in the first pass and in every later one: after a
\* re-execution that leaves failures with retries left, the run is back in
\* 'fixing'.
C23_AsClaimed ==
  (pc = "fix" /\ idx <= Len(failedResults)) => stage = "fixing"

EventsOfType(evs, type) == SelectSeq(evs, LAMBDA e : e.type = type)

\* C24: with notifications enabled the run hands one workflow.test.executed
\* event to the notifier after every execution pass, the first without
\* isRetest and every later one with isRetest = true, and one
\* workflow.fix.generated event per fix pushed to state.bugFixes: at return
\* their number is state.bugFixes.length.
C24_EventsPerPassAndFix ==
  cfg.enableAbly =>
    LET executed == EventsOfType(AllEvents, "workflow.test.executed")
        fixes == EventsOfType(AllEvents, "workflow.fix.generated")
    IN /\ Len(executed) = Len(execLog)
       /\ \A k \in DOMAIN executed :
            IF k = 1 THEN "isRetest" \notin DOMAIN executed[k]
            ELSE "isRetest" \in DOMAIN executed[k] /\ executed[k].isRetest
       /\ Len(fixes) = Len(bugFixes)
       /\ (RunOver => Len(EventsOfType(events, "workflow.fix.generated")) = Len(bugFixes))

\* Three execution passes, two fix attempts of which one threw: three
\* test.executed events and one fix.generated event.
C24_Witness ==
  /\ cfg.enableAbly
  /\ RunOver
  /\ Len(EventsOfType(events, "workflow.test.executed")) = 3
  /\ Len(EventsOfType(events, "workflow.fix.generated")) = 1
  /\ fixThrows = 1

\* 'Exception' that no success mark follows on its line: the text of an
\* uncaught exception, not the name of a test that passed.
UncaughtExceptionText(text) ==
  \E i \in DOMAIN text :
    /\ text[i] = "Exception"
    /\ ~\E j \in DOMAIN text :
          /\ i < j
          /\ text[j] = "CHECK"
          /\ \A k \in i..j : text[k] # "NL"

FailureMarkerOrKeyword(text) ==
  \/ includes(text, "CROSS")
  \/ includes(text, "FAILED")
  \/ includes(text, "AssertionError")
  \/ UncaughtExceptionText(text)

SuccessMarker(text) == includes(text, "CHECK") \/ includes(text, "SUCCESS")

\* The verdict by the stated precedence.
VerdictByPrecedence(text) ==
  IF FailureMarkerOrKeyword(text) THEN FALSE
  ELSE IF SuccessMarker(text) THEN TRUE
  ELSE includes(text, "testAdd()")

\* The executor call r has read its verdict from the console output.
ParsedOutput(r) ==
  /\ runs[r].kind = "junit"
  /\ runs[r].result # <<>>
  /\ runs[r].fault \in {"none", "testFailed", "runTimeout", "nojava"}

\* C25 as claimed: the verdict of the JUnit executor follows the precedence:
\* a failure marker or keyword in the output forces passed = false, else a
\* success marker forces passed = true, else the result is passed exactly
\* when a test-method signature is there; so passed = true implies that the
\* output holds no failure marker or keyword.
C25_AsClaimed ==
  \A r \in DOMAIN runs :
    ParsedOutput(r) =>
      /\ runs[r].result[1].passed = VerdictByPrecedence(runs[r].output)
      /\ (runs[r].result[1].passed => ~FailureMarkerOrKeyword(runs[r].output))

CompileFaults == {"compileError", "compileTimeout", "nojavac"}

\* C26: in the JUnit executor a compilation failure short-circuits: the call
\* returns at once a result with passed = false whose error is 'Compilation
\* failed' with the compiler's diagnostic (the exec error's message when
\* javac printed nothing), and the test is never launched.
C26_CompileFailureShortCircuits ==
  \A r \in DOMAIN runs :
    LET run == runs[r]
    IN /\ run.fault \in CompileFaults =>
            /\ run.kind = "junit"
            /\ run.pcx = "returned"
            /\ run.result =
                 <<FailResult(run.tc.id,
                              <<MsgCompilation>> \o
                                (IF run.output # <<>> THEN run.output
                                 ELSE <<MsgCommandFailed>>))>>
       /\ run.pcx \in {"run", "cleanup"} => run.fault \notin CompileFaults

\* javac rejected the test of test case 2 with 'cannot find symbol'.
C26_Witness ==
  /\ Len(runs) = 1
  /\ runs[1].fault = "compileError"
  /\ runs[1].pcx = "returned"
  /\ runs[1].result = <<FailResult(2, <<MsgCompilation, "cannot find symbol">>)>>

\* C27 as claimed: the Jest executor's verdict is read from the failed-test
\* counter of the structured output: passed = true exactly when the
\* structured output was obtained and its counter is zero, and with a
\* positive counter the first failing assertion's message is the error.
C27_AsClaimed ==
  \A r \in DOMAIN runs :
    (runs[r].kind = "jest" /\ runs[r].result # <<>> /\ runs[r].report # <<>>) =>
      LET report == runs[r].report[1]
          result == runs[r].result[1]
      IN /\ result.passed <=> (report.json /\ report.numFailedTests = 0)
         /\ (report.json /\ report.numFailedTests > 0) =>
              result.error = report.failureMessage

\* Executor calls that have begun and not returned.
InFlight == {r \in DOMAIN runs : runs[r].pcx # "returned"}

\* C28: an execution pass runs the test cases one at a time, never two in
\* flight at once, and leaves in state.testResults exactly one result per
\* test case of the array, in the same order, each with the id of its test
\* case.
C28_OneResultPerTestInOrder ==
  /\ Cardinality(InFlight) <= 1
  /\ Len(batchResults) <= Len(testCases)
  /\ \A i \in DOMAIN batchResults : batchResults[i].testCaseId = testCases[i].id
  /\ pc = "batchDone" =>
       /\ Len(testResults) = Len(testCases)
       /\ \A i \in DOMAIN testResults : testResults[i].testCaseId = testCases[i].id
       /\ \A i \in DOMAIN testResults :
            \E j \in DOMAIN testCases : testCases[j].id = testResults[i].testCaseId

\* A pass over test cases 2 and 1, in that order: the first passed, the
\* second failed.
C28_Witness ==
  /\ pc = "batchDone"
  /\ Len(testCases) = 2
  /\ testCases[1].id = 2
  /\ testResults[1] = PassResult(2)
  /\ testResults[2].testCaseId = 1
  /\ ~testResults[2].passed

\* Ids of the results that failed in the most recent execution pass.
FailingNow == {testResults[i].testCaseId : i \in {j \in DOMAIN testResults : ~testResults[j].passed}}

\* C29: the workflow never requests a fix for a passing result: the results
\* the fix loop works on are failing results of the most recent execution
\* pass, and every BugFix pushed to state.bugFixes carries the testResultId
\* of a result failing in that pass when the fix is generated.
C29_FixOnlyForFailing ==
  /\ [](pc = "fix" =>
          \A i \in DOMAIN failedResults :
            /\ ~failedResults[i].passed
            /\ \E j \in DOMAIN testResults : testResults[j] = failedResults[i])
  /\ [][bugFixes' # bugFixes =>
          /\ Len(bugFixes') = Len(bugFixes) + 1
          /\ SubSeq(bugFixes', 1, Len(bugFixes)) = bugFixes
          /\ bugFixes'[Len(bugFixes')].testResultId \in FailingNow]_vars

\* Of two results the first passed and the second failed: the one fix
\* requested is for the second.
C29_Witness ==
  /\ pc = "fix"
  /\ Len(testResults) = 2
  /\ testResults[1].passed
  /\ ~testResults[2].passed
  /\ fixCalls = 1
  /\ Len(bugFixes) = 1
  /\ bugFixes[1].testResultId = 2

\* C30: a fix of a test replaces its code and keeps its id: once the initial
\* pass has run, the test cases of state.testCases are as many as were
\* generated, with the same ids in the same order, through every fix pass,
\* and the store holds one entry per test case, under its id.
C30_TestCasesKeepIds ==
  initialResults # <<>> =>
    /\ Len(testCases) = Len(initialResults)
    /\ \A i \in DOMAIN testCases : testCases[i].id = initialResults[i].testCaseId
    /\ DOMAIN tcStore = {testCases[i].id : i \in DOMAIN testCases}
    /\ \A id \in DOMAIN tcStore : tcStore[id].id = id

\* Two fix passes over two test cases, the first of which had its code
\* replaced: it is still test case 1, in the array and in the store.
C30_Witness ==
  /\ RunOver
  /\ fixPasses = 2
  /\ Len(testCases) = 2
  /\ testCases[1] = [id |-> 1, code |-> "v1", filePath |-> cfg.filePath]
  /\ tcStore[1] = [id |-> 1, code |-> "v1", filePath |-> cfg.filePath]
  /\ DOMAIN tcStore = {1, 2}

\* The source branch is taken: the analysis does not contain TEST and the
\* error text matches none of the test-is-broken signatures.
SourceBranchCase ==
  /\ ~includes(Analysis(call.verdict), "TEST")
  /\ ~TestBrokenSignature(failedResults[idx].error)

\* C31: the BugFix autoFixFailedTest returns records the artifact that was
\* modified. In the test branch originalCode and fixedCode are the test's
\* code before and after the call and the source file is not written; in the
\* source branch they are the source text as read and the corrected source
\* text. In both branches filePath is the path of the source file and
\* testCaseId the id of the failing test case.
C31_BugFixRecordsArtifact ==
  pc = "classified" =>
    LET fix == bugFixes[1]
        failing == failedResults[idx]
    IN /\ fix.filePath = cfg.filePath
       /\ fix.testCaseId = failing.testCaseId
       /\ IF SourceBranchCase
          THEN /\ fix.originalCode = call.sourceCode
               /\ fix.fixedCode = call.reply
               /\ sourceFile \in {call.sourceCode, fix.fixedCode}
               /\ tcStore[failing.testCaseId].code = call.testCode
          ELSE /\ fix.originalCode = call.testCode
               /\ fix.fixedCode = tcStore[failing.testCaseId].code
               /\ fix.fixedCode = call.reply
               /\ sourceFile = call.sourceCode

\* A test fix whose old test text, new test text and source text tell the
\* artifacts apart: the test is "v0", its replacement and the source "v1".
C31_Witness ==
  /\ pc = "classified"
  /\ ~SourceBranchCase
  /\ call.testCode = "v0"
  /\ call.reply = "v1"
  /\ call.sourceCode = "v1"
  /\ bugFixes[1].originalCode = "v0"
  /\ bugFixes[1].fixedCode = "v1"
  /\ bugFixes[1].filePath = "calc.ts"

\* Fix attempts of the run: over the fix passes begun, the number of failing
\* results each pass works on.
FixAttempts == SumTo(execLog, fixPasses)

\* C32 as claimed: state.bugFixes never shrinks, and at return its length is
\* the total number of fix attempts made, whatever the outcome of each.
C32_AsClaimed ==
  /\ [][Len(bugFixes') >= Len(bugFixes)]_vars
  /\ [](Returned => Len(bugFixes) = FixAttempts)

\* C32: state.bugFixes is append-only, every step keeping the entries it has,
\* and at return its length is the number of fix attempts made less those
\* that threw, one entry for each attempt that returned a BugFix.
C32_BugFixesAppendOnly ==
  /\ [][/\ Len(bugFixes') >= Len(bugFixes)
         /\ SubSeq(bugFixes', 1, Len(bugFixes)) = bugFixes]_vars
  /\ [](Returned =>
          /\ fixCalls = FixAttempts
          /\ Len(bugFixes) = FixAttempts - fixThrows)

\* Two fix passes over three failing results in all: one attempt threw, two
\* returned a BugFix, and the run has returned.
C32_Witness ==
  /\ Returned
  /\ fixPasses = 2
  /\ FixAttempts = 3
  /\ fixThrows = 1
  /\ Len(bugFixes) = 2

\* C33: at return the stage is 'completed' exactly when the outer catch did
\* not run and state.testResults holds no failing entry; a run that returns
\* 'failed' without the outer catch has a failing entry in state.testResults.
C33_CompletedIffAllPass ==
  Returned =>
    /\ stage \in {"completed", "failed"}
    /\ (stage = "completed") <=> (~aborted /\ FailedCount(testResults) = 0)
    /\ (stage = "failed" /\ ~aborted) =>
         \E i \in DOMAIN testResults : ~testResults[i].passed

\* A run that failed at first and returned 'completed' after a re-execution
\* in which both of its tests passed.
C33_Witness ==
  /\ Returned
  /\ stage = "completed"
  /\ ~aborted
  /\ Len(testResults) = 2
  /\ FailedCount(testResults) = 0
  /\ FailedCount(initialResults) > 0
  /\ Len(execLog) = 2

\* One result per test case of state.testCases, in order.
CoversAllTestCases(rs) ==
  /\ Len(rs) = Len(testCases)
  /\ \A i \in DOMAIN rs : rs[i].testCaseId = testCases[i].id

\* C34: with autoApplyFixes every execution pass, the re-executions
\* included, runs all the test cases, and the fix loop works on exactly the
\* failing results of the latest pass, in order: each of them gets its fix
\* attempt before the next re-execution, whether or not it passed earlier,
\* and a result that now passes gets none.
C34_NextPassFixesLatestFailures ==
  /\ []((cfg.autoApplyFixes /\ execLog # <<>>) =>
          /\ CoversAllTestCases(testResults)
          /\ pc \in {"loop", "fix", "revalidate"} =>
               failedResults = FilterFailed(testResults))
  /\ [][(cfg.autoApplyFixes /\ fixCalls' # fixCalls) =>
          /\ pc = "fix"
          /\ idx <= FailedCount(testResults)
          /\ idx' = idx + 1
          /\ bugFixes' # bugFixes =>
               bugFixes'[Len(bugFixes')].testResultId =
                 FilterFailed(testResults)[idx].testCaseId]_vars
  /\ [][(cfg.autoApplyFixes /\ pc = "fix" /\ pc' # "fix") =>
          idx = FailedCount(testResults) + 1]_vars

\* The first test passed at first and the second failed; after the fix of
\* the second, the re-execution has the first failing and the second
\* passing, and the second pass made its one fix attempt, for the first.
C34_Witness ==
  /\ cfg.autoApplyFixes
  /\ pc = "revalidate"
  /\ fixPasses = 2
  /\ Len(initialResults) = 2
  /\ initialResults[1].passed
  /\ ~initialResults[2].passed
  /\ ~testResults[1].passed
  /\ testResults[2].passed
  /\ Len(bugFixes) = 2
  /\ bugFixes[1].testResultId = 2
  /\ bugFixes[2].testResultId = 1
  /\ fixCalls = 2

\* C35: every fix attempt adds one entry, either to state.bugFixes (the
\* attempt returned a BugFix) or to state.errors (it threw), and nothing to
\* the other; a run that returns without the outer catch has as many
\* entries in the two together as fix attempts were made, and at most
\* maxRetries times the number of test cases in state.bugFixes.
C35_OneEntryPerAttempt ==
  /\ [][fixCalls' # fixCalls =>
          /\ fixCalls' = fixCalls + 1
          /\ \/ /\ Len(bugFixes') = Len(bugFixes) + 1
                /\ SubSeq(bugFixes', 1, Len(bugFixes)) = bugFixes
                /\ errors' = errors
             \/ /\ Len(errors') = Len(errors) + 1
                /\ SubSeq(errors', 1, Len(errors)) = errors
                /\ bugFixes' = bugFixes]_vars
  /\ []((Returned /\ ~aborted) =>
          /\ fixCalls = FixAttempts
          /\ Len(bugFixes) + Len(errors) = FixAttempts
          /\ Len(bugFixes) <= cfg.maxRetries * Len(testCases))

\* Two passes over two tests, every result failing: of the four attempts
\* one threw, and the three fixes are within maxRetries x test cases = 4.
C35_Witness ==
  /\ Returned
  /\ ~aborted
  /\ cfg.maxRetries = 2
  /\ Len(testCases) = 2
  /\ FixAttempts = 4
  /\ Len(bugFixes) = 3
  /\ Len(errors) = 1

\* maxRetries is 0 and the initial execution had a failing result.
NoRetryBudgetRun == cfg.maxRetries = 0 /\ FailedCount(initialResults) > 0

\* C36: with maxRetries = 0 and a failing result in the initial execution,
\* whatever autoApplyFixes is, the run enters 'fixing', calls
\* autoFixFailedTest never, re-executes nothing, and returns 'failed' with
\* state.bugFixes and state.errors empty.
C36_NoBudgetNoFix ==
  NoRetryBudgetRun =>
    /\ fixCalls = 0
    /\ fixPasses = 0
    /\ execLog = <<FailedCount(initialResults)>>
    /\ testResults = initialResults
    /\ bugFixes = <<>>
    /\ errors = <<>>
    /\ ~aborted
    /\ pc \in {"loop", "final", "done"}
    /\ IF Returned
       THEN /\ stage = "failed"
            /\ stageLog = <<"parsing", "generating", "executing", "fixing", "failed">>
       ELSE /\ stage = "fixing"
            /\ stageLog = <<"parsing", "generating", "executing", "fixing">>

\* autoApplyFixes is on, maxRetries 0, two of three tests failed: the run
\* has returned 'failed' with no fix and no error.
C36_Witness ==
  /\ NoRetryBudgetRun
  /\ cfg.autoApplyFixes
  /\ Returned
  /\ stage = "failed"
  /\ Len(testCases) = 3
  /\ FailedCount(testResults) = 2
  /\ bugFixes = <<>>
  /\ errors = <<>>

\* generateTestsForFile returned no test case.
ZeroTestsRun ==
  /\ testCases = <<>>
  /\ pc \notin {"start", "generate"}
  /\ \E i \in DOMAIN stageLog : stageLog[i] = "executing"

\* C37: a run whose generation returns zero test cases executes nothing and
\* returns 'completed' with state.testResults and state.bugFixes empty: no
\* executor call is there to throw, no fix is attempted, and the stage goes
\* from 'executing' to 'completed'.
C37_NoTestsCompletes ==
  ZeroTestsRun =>
    /\ pc \in {"execute", "done"}
    /\ testResults = <<>>
    /\ bugFixes = <<>>
    /\ errors = <<>>
    /\ resStore = <<>>
    /\ fixCalls = 0
    /\ ~aborted
    /\ Returned =>
         /\ stage = "completed"
         /\ execLog = <<0>>
         /\ stageLog = <<"parsing", "generating", "executing", "completed">>

\* A run over a supported file with a retry budget whose generation gave
\* no test case has returned 'completed'.
C37_Witness ==
  /\ ZeroTestsRun
  /\ Returned
  /\ cfg.maxRetries = 2
  /\ cfg.autoApplyFixes
  /\ stage = "completed"
  /\ testResults = <<>>
  /\ bugFixes = <<>>

\* C38: every BugFix of state.bugFixes has applied equal to the run's
\* autoApplyFixes, an applied BugFix stays applied, and the workflow sets
\* neither validated nor retestResult: validated is false for every BugFix
\* at every point of the run, after a re-execution in which the fixed test
\* passes too.
C38_AppliedSetValidatedNever ==
  /\ [](\A i \in DOMAIN bugFixes :
          /\ bugFixes[i].applied = cfg.autoApplyFixes
          /\ bugFixes[i].validated = FALSE
          /\ "retestResult" \notin DOMAIN bugFixes[i])
  /\ [][/\ cfg' = cfg
         /\ \A i \in DOMAIN bugFixes :
              /\ i \in DOMAIN bugFixes'
              /\ bugFixes[i].applied => bugFixes'[i].applied]_vars

\* The one failing test got an applied fix and passed the re-execution:
\* the run returned 'completed' and the BugFix is still not validated.
C38_Witness ==
  /\ Returned
  /\ stage = "completed"
  /\ cfg.autoApplyFixes
  /\ Len(execLog) = 2
  /\ Len(bugFixes) = 1
  /\ bugFixes[1].applied
  /\ ~bugFixes[1].validated
  /\ \E i \in DOMAIN testResults :
       testResults[i].testCaseId = bugFixes[1].testCaseId /\ testResults[i].passed

\* ------------------------------------------------------------------ the workflow without notifications
\* runClosedLoopWorkflow(filePath, testType, requirements, autoApplyFixes,
\* maxRetries) as it was before the notifier, on the variables of the run.
legacyVars ==
  <<cfg, pc, stage, testCases, testResults, bugFixes, errors, failedResults, idx,
    retryCount, tcStore, resStore, sourceFile, stageLog, execLog, fixCalls,
    fixPasses, fixThrows, initialResults, aborted>>

\* The state record as created, stores as generation finds them.
LegacyInit ==
  /\ cfg.filePath \in FilePaths
  /\ cfg.autoApplyFixes \in BOOLEAN
  /\ cfg.maxRetries \in 0..MaxSize
  /\ pc = "start"
  /\ stage = "parsing"
  /\ testCases = <<>>
  /\ testResults = <<>>
  /\ bugFixes = <<>>
  /\ errors = <<>>
  /\ failedResults = <<>>
  /\ idx = 0
  /\ retryCount = 0
  /\ tcStore = <<>>
  /\ resStore = <<>>
  /\ sourceFile = "v0"
  /\ stageLog = <<"parsing">>
  /\ execLog = <<>>
  /\ fixCalls = 0
  /\ fixPasses = 0
  /\ fixThrows = 0
  /\ initialResults = <<>>
  /\ aborted = FALSE

\* catch (error): stage failed, message recorded; return state follows.
LegacyCatch(message) ==
  /\ stage' = "failed"
  /\ stageLog' = Append(stageLog, "failed")
  /\ errors' = Append(errors, message)
  /\ aborted' = TRUE
  /\ pc' = "done"

\* state.stage = 'generating'
LegacyEnterGenerating ==
  /\ pc = "start"
  /\ SetStage("generating")
  /\ pc' = "generate"
  /\ UNCHANGED <<cfg, testCases, testResults, bugFixes, errors, failedResults, idx,
                 retryCount, tcStore, resStore, sourceFile, execLog, fixCalls,
                 fixPasses, fixThrows, initialResults, aborted>>

\* generateTestsForFile returned; state.stage = 'executing'
LegacyGenerateOk ==
  /\ pc = "generate"
  /\ ~parseCodeMetadata(cfg.filePath).threw
  /\ \E n \in 0..MaxSize :
       LET tcs == [i \in 1..n |-> [id |-> i, code |-> "v0", filePath |-> cfg.filePath]]
       IN /\ testCases' = tcs
          /\ tcStore' = tcs
  /\ SetStage("executing")
  /\ pc' = "execute"
  /\ UNCHANGED <<cfg, testResults, bugFixes, errors, failedResults, idx, retryCount,
                 resStore, sourceFile, execLog, fixCalls, fixPasses, fixThrows,
                 initialResults, aborted>>

\* generateTestsForFile threw
LegacyGenerateThrows ==
  /\ pc = "generate"
  /\ LET parsed == parseCodeMetadata(cfg.filePath)
     IN LegacyCatch(IF parsed.threw THEN parsed.message ELSE MsgGeneration)
  /\ UNCHANGED <<cfg, testCases, testResults, bugFixes, failedResults, idx, retryCount,
                 tcStore, resStore, sourceFile, execLog, fixCalls, fixPasses,
                 fixThrows, initialResults>>

\* The initial execution pass returned: none failing -> completed and
\* return; otherwise state.stage = 'fixing', failedResults, retryCount = 0.
LegacyExecuteOk ==
  /\ pc = "execute"
  /\ \E rs \in ExecOutcomes(testCases) :
       /\ testResults' = rs
       /\ resStore' = StoreResults(resStore, rs)
       /\ initialResults' = rs
       /\ execLog' = Append(execLog, FailedCount(rs))
       /\ IF FailedCount(rs) = 0
          THEN /\ SetStage("completed")
               /\ pc' = "done"
               /\ UNCHANGED <<failedResults, retryCount>>
          ELSE /\ SetStage("fixing")
               /\ failedResults' = FilterFailed(rs)
               /\ retryCount' = 0
               /\ pc' = "loop"
  /\ UNCHANGED <<cfg, testCases, bugFixes, errors, idx, tcStore, sourceFile,
                 fixCalls, fixPasses, fixThrows, aborted>>

\* the executor threw in the initial pass, in the call for a test case
LegacyExecuteThrows ==
  /\ pc = "execute"
  /\ testCases # <<>>
  /\ LegacyCatch(MsgExecutor)
  /\ UNCHANGED <<cfg, testCases, testResults, bugFixes, failedResults, idx, retryCount,
                 tcStore, resStore, sourceFile, execLog, fixCalls, fixPasses,
                 fixThrows, initialResults>>

\* while (retryCount < maxRetries && failedResults.length > 0): enter
LegacyLoopEnter ==
  /\ pc = "loop"
  /\ retryCount < cfg.maxRetries /\ Len(failedResults) > 0
  /\ pc' = "fix"
  /\ idx' = 1
  /\ fixPasses' = fixPasses + 1
  /\ UNCHANGED <<cfg, stage, testCases, testResults, bugFixes, errors, failedResults,
                 retryCount, tcStore, resStore, sourceFile, stageLog, execLog,
                 fixCalls, fixThrows, initialResults, aborted>>

\* the while test fails
LegacyLoopExit ==
  /\ pc = "loop"
  /\ ~(retryCount < cfg.maxRetries /\ Len(failedResults) > 0)
  /\ pc' = "final"
  /\ UNCHANGED <<cfg, stage, testCases, testResults, bugFixes, errors, failedResults,
                 idx, retryCount, tcStore, resStore, sourceFile, stageLog, execLog,
                 fixCalls, fixPasses, fixThrows, initialResults, aborted>>

\* One iteration of the for loop: the fix was produced and pushed.
LegacyFixItemOk ==
  /\ pc = "fix"
  /\ idx <= Len(failedResults)
  /\ \E verdict \in WfVerdicts, reply \in WfReplies :
       LET out == AutoFixFailedTest(failedResults[idx], cfg.autoApplyFixes, verdict,
                                    reply, FALSE, tcStore, sourceFile)
       IN /\ ~out.threw
          /\ bugFixes' = Append(bugFixes, out.bugFix)
          /\ tcStore' = out.store
          /\ sourceFile' = out.file
          /\ testCases' = SyncArray(testCases, out.store, failedResults[idx].testCaseId)
  /\ idx' = idx + 1
  /\ fixCalls' = fixCalls + 1
  /\ UNCHANGED <<cfg, pc, stage, testResults, errors, failedResults, retryCount,
                 resStore, stageLog, execLog, fixPasses, fixThrows, initialResults,
                 aborted>>

\* One iteration whose fix attempt threw: the inner catch records it.
LegacyFixItemThrows ==
  /\ pc = "fix"
  /\ idx <= Len(failedResults)
  /\ \E verdict \in WfVerdicts, reply \in WfReplies :
       LET out == AutoFixFailedTest(failedResults[idx], cfg.autoApplyFixes, verdict,
                                    reply, TRUE, tcStore, sourceFile)
       IN /\ out.threw
          /\ errors' = Append(errors, out.message)
  /\ idx' = idx + 1
  /\ fixCalls' = fixCalls + 1
  /\ fixThrows' = fixThrows + 1
  /\ UNCHANGED <<cfg, pc, stage, testCases, testResults, bugFixes, failedResults,
                 retryCount, tcStore, resStore, sourceFile, stageLog, execLog,
                 fixPasses, initialResults, aborted>>

\* End of the for loop with autoApplyFixes: state.stage = 'validating'
LegacyEnterValidating ==
  /\ pc = "fix"
  /\ idx > Len(failedResults)
  /\ cfg.autoApplyFixes
  /\ SetStage("validating")
  /\ pc' = "revalidate"
  /\ UNCHANGED <<cfg, testCases, testResults, bugFixes, errors, failedResults, idx,
                 retryCount, tcStore, resStore, sourceFile, execLog, fixCalls,
                 fixPasses, fixThrows, initialResults, aborted>>

\* End of the for loop without autoApplyFixes: break
LegacyBreakManual ==
  /\ pc = "fix"
  /\ idx > Len(failedResults)
  /\ ~cfg.autoApplyFixes
  /\ pc' = "final"
  /\ UNCHANGED <<cfg, stage, testCases, testResults, bugFixes, errors, failedResults,
                 idx, retryCount, tcStore, resStore, sourceFile, stageLog, execLog,
                 fixCalls, fixPasses, fixThrows, initialResults, aborted>>

\* The re-execution returned: none failing -> completed and return;
\* otherwise failedResults is refilled and retryCount++.
LegacyRevalidateOk ==
  /\ pc = "revalidate"
  /\ \E rs \in ExecOutcomes(testCases) :
       /\ testResults' = rs
       /\ resStore' = StoreResults(resStore, rs)
       /\ execLog' = Append(execLog, FailedCount(rs))
       /\ IF FailedCount(rs) = 0
          THEN /\ SetStage("completed")
               /\ pc' = "done"
               /\ UNCHANGED <<failedResults, retryCount>>
          ELSE /\ failedResults' = FilterFailed(rs)
               /\ retryCount' = retryCount + 1
               /\ pc' = "loop"
               /\ UNCHANGED <<stage, stageLog>>
  /\ UNCHANGED <<cfg, testCases, bugFixes, errors, idx, tcStore, sourceFile,
                 fixCalls, fixPasses, fixThrows, initialResults, aborted>>

\* the executor threw in a re-execution
LegacyRevalidateThrows ==
  /\ pc = "revalidate"
  /\ LegacyCatch(MsgExecutor)
  /\ UNCHANGED <<cfg, testCases, testResults, bugFixes, failedResults, idx, retryCount,
                 tcStore, resStore, sourceFile, execLog, fixCalls, fixPasses,
                 fixThrows, initialResults>>

\* Final status after the loop, then return state
LegacyFinalStatus ==
  /\ pc = "final"
  /\ SetStage(IF FailedCount(testResults) > 0 THEN "failed" ELSE "completed")
  /\ pc' = "done"
  /\ UNCHANGED <<cfg, testCases, testResults, bugFixes, errors, failedResults, idx,
                 retryCount, tcStore, resStore, sourceFile, execLog, fixCalls,
                 fixPasses, fixThrows, initialResults, aborted>>

LegacyNext ==
  \/ LegacyEnterGenerating
  \/ LegacyGenerateOk
  \/ LegacyGenerateThrows
  \/ LegacyExecuteOk
  \/ LegacyExecuteThrows
  \/ LegacyLoopEnter
  \/ LegacyLoopExit
  \/ LegacyFixItemOk
  \/ LegacyFixItemThrows
  \/ LegacyEnterValidating
  \/ LegacyBreakManual
  \/ LegacyRevalidateOk
  \/ LegacyRevalidateThrows
  \/ LegacyFinalStatus

\* The runs with notifications: options with enableAbly, every event handed
\* to publishEvent in a step of its own.
InitNotified == \E c \in Configs : c.enableAbly /\ InitWith(c)

SpecNotified == InitNotified /\ [][Next]_vars

\* C39: the workflow with notifications implements the workflow without
\* them. Its run starts in the state the earlier one starts in, and every
\* step of it is either a step of the earlier workflow, making the same
\* collaborator call with the same outcome and the same change to stage,
\* test cases, results, fixes, errors and the loop's locals, or a
\* publishEvent step that changes none of them; so both return the same
\* state.
C39_ImplementsLegacy ==
  /\ LegacyInit
  /\ [][legacyVars' # legacyVars => LegacyNext]_vars

\* A run with notifications went through a fix pass and a re-execution and
\* returned 'completed'; all its events were handed over, and one of them
\* was not delivered.
C39_Witness ==
  /\ RunOver
  /\ cfg.enableAbly
  /\ dropped
  /\ stage = "completed"
  /\ Len(execLog) = 2
  /\ Len(bugFixes) = 1
  /\ Len(events) >= 8

====
